---- MODULE Spec2Model ----
(***************************************************************************)
(* A model of the pension planner: the pension calculator                  *)
(* (calculatePension, calculatePensionsForSchemes, getPensionInsights),    *)
(* the two HTTP handlers that call it (GET /api/pension-schemes and        *)
(* GET /api/allroutes), and the auth gating of the dashboard               *)
(* (AuthContextProvider, Dashboard).                                       *)
(*                                                                         *)
(* Representation.                                                         *)
(*  - A text is a sequence of tokens.  The characters the code's regular   *)
(*    expressions look at (digits, comma, the rupee sign, the en dash) are *)
(*    one token each; a word or phrase the code only tests with includes() *)
(*    is one token.  "RUPEE" stands for the rupee sign and "ENDASH" for    *)
(*    the en dash.                                                         *)
(*  - A JavaScript number that may be NaN or a half-integer is a record    *)
(*    [t, n]: t = "num" (the integer n), "half" (n/2, n odd) or "NaN".     *)
(*    Numbers the code always rounds are plain integers.                   *)
(*  - An optional field of a JSON record is a record [k, v]: k names the   *)
(*    JavaScript type found there ("undefined", "null", "string",          *)
(*    "number").                                                           *)
(*  - Math.pow and the corpus it feeds are held in fixed point (PowScale): *)
(*    a corpus is the code's double to about four significant digits.      *)
(*  - The narrative `calculation` string of an estimate (presentation      *)
(*    only) is left out.                                                   *)
(***************************************************************************)
EXTENDS Integers, Sequences, FiniteSets, TLC

VARIABLES
  dataset,      \* the records loaded from PensionDB.json, in file order
  pc,           \* "idle" | "received" | "responded": where the server is
  request,      \* the request being handled
  response,     \* the response of the handler
  core,         \* the calls the handler made to the calculator module
  calcScheme,   \* the scheme of a direct call of calculatePension
  calcBatch,    \* the schemes of a direct call of calculatePensionsForSchemes
  calcProfile,  \* the user profile of a direct call
  calcResult,   \* what that call returned (or that it threw)
  calcInsights, \* what getPensionInsights returned for the batch's result
  user,         \* AuthContextProvider's state `user`, as last rendered
  loading,      \* AuthContextProvider's state `loading`, as last rendered
  updates,      \* the calls of setUser and setLoading not yet rendered
  subscribed,   \* the provider's effect has registered the auth-state callback
  location,     \* the route the browser shows: "/" | "/dashboard"
  view,         \* what Dashboard returned last: "none" | "spinner" | "null" | "body"
  effectDue,    \* Dashboard's effect is waiting to run for the last render
  navigating,   \* router.push('/') was called and the route has yet to change
  pushed,       \* the last call of router.push('/'): who called, in what state
  callbackFired \* the auth-state callback has been called

serverVars == <<dataset, request, response, core>>

calcVars == <<calcScheme, calcBatch, calcProfile, calcResult, calcInsights>>

authVars ==
  <<user, loading, updates, subscribed, location, view, effectDue, navigating,
    pushed, callbackFired>>

vars == <<pc, serverVars, calcVars, authVars>>

None == [k |-> "none"]

(***************************************************************************)
(* JavaScript numbers                                                      *)
(***************************************************************************)
NaN == [t |-> "NaN", n |-> 0]

Num(n) == [t |-> "num", n |-> n]

\* The number h/2.
Halves(h) == IF h % 2 = 0 THEN Num(h \div 2) ELSE [t |-> "half", n |-> h]

IsNaN(x) == x.t = "NaN"

\* Twice the value of a number that is not NaN.
Twice(x) == IF x.t = "num" THEN 2 * x.n ELSE x.n

\* x * k for an integer k.
Times(x, k) == IF IsNaN(x) THEN NaN ELSE Halves(Twice(x) * k)

\* x + y.
Plus(x, y) == IF IsNaN(x) \/ IsNaN(y) THEN NaN ELSE Halves(Twice(x) + Twice(y))

\* (x + y) / 2 for integer-valued or NaN x and y.
Midpoint(x, y) == IF IsNaN(x) \/ IsNaN(y) THEN NaN ELSE Halves(x.n + y.n)

\* x > k, x <= k for an integer k: every comparison with NaN is false.
Greater(x, k) == ~IsNaN(x) /\ Twice(x) > 2 * k

\* x <= k in the place of x < k.
LessOrEqual(x, k) == ~IsNaN(x) /\ Twice(x) <= 2 * k

Less(x, k) == ~IsNaN(x) /\ Twice(x) < 2 * k

\* Math.round of the rational n/d, d > 0: the nearest integer, halves upwards.
Round(n, d) ==
  IF d % 2 = 0 THEN (n + d \div 2) \div d ELSE (2 * n + d) \div (2 * d)

Max(a, b) == IF a >= b THEN a ELSE b

Min(a, b) == IF a <= b THEN a ELSE b

(***************************************************************************)
(* Texts                                                                   *)
(***************************************************************************)
Digits == {"0", "1", "2", "3", "4", "5", "6", "7", "8", "9"}

DigitValue(c) ==
  CASE c = "0" -> 0 [] c = "1" -> 1 [] c = "2" -> 2 [] c = "3" -> 3
    [] c = "4" -> 4 [] c = "5" -> 5 [] c = "6" -> 6 [] c = "7" -> 7
    [] c = "8" -> 8 [] c = "9" -> 9

\* String.prototype.toLowerCase on one token.
LowerToken(c) ==
  CASE c = "Per Month" -> "per month"
    [] c = "Pensionable Salary" -> "pensionable salary"
    [] c = "Pensionable Service" -> "pensionable service"
    [] c = "Accumulates" -> "accumulates"
    [] c = "Contributions" -> "contributions"
    [] c = "Market" -> "market"
    [] c = "Corpus" -> "corpus"
    [] c = "BPL" -> "bpl"
    [] c = "Below Poverty Line" -> "below poverty line"
    [] c = "Income Cap" -> "income cap"
    [] c = "Threshold" -> "threshold"
    [] c = "India" -> "india"
    [] c = "INDIA" -> "india"
    [] c = " India " -> " india "
    [] c = "Japan" -> "japan"
    [] c = "Ind" -> "ind"
    [] c = "Atlantis" -> "atlantis"
    [] OTHER -> c

toLowerCase(str) == [i \in 1..Len(str) |-> LowerToken(str[i])]

includes(str, c) == \E i \in 1..Len(str) : str[i] = c

\* The character class [\d,] of the two regular expressions.
DigitOrComma(c) == c \in Digits \/ c = ","

\* The end of the longest run of [\d,] that starts at i (i - 1 if none does).
RECURSIVE RunEnd(_, _)
RunEnd(str, i) ==
  IF i <= Len(str) /\ DigitOrComma(str[i]) THEN RunEnd(str, i + 1) ELSE i - 1

\* str.replace(/,/g, '')
StripCommas(str) == SelectSeq(str, LAMBDA c : c # ",")

\* parseInt of a text of digits: NaN for the empty text.
RECURSIVE DecimalValue(_)
DecimalValue(ds) ==
  IF ds = <<>> THEN 0
  ELSE 10 * DecimalValue(SubSeq(ds, 1, Len(ds) - 1)) + DigitValue(ds[Len(ds)])

parseIntDigits(ds) == IF ds = <<>> THEN NaN ELSE Num(DecimalValue(ds))

\* extractNumber: the first match of /[\d,]+/, commas removed, parsed; 0
\* when nothing matches.
extractNumber(str) ==
  LET starts == {i \in 1..Len(str) : DigitOrComma(str[i])}
  IN IF starts = {} THEN Num(0)
     ELSE LET i == CHOOSE j \in starts : \A k \in starts : j <= k
          IN parseIntDigits(StripCommas(SubSeq(str, i, RunEnd(str, i))))

\* Whether /RUPEE([\d,]+)ENDASH RUPEE([\d,]+)/ matches at position i.
RangeAt(str, i) ==
  /\ str[i] = "RUPEE"
  /\ RunEnd(str, i + 1) >= i + 1
  /\ LET e == RunEnd(str, i + 1)
     IN /\ e + 2 <= Len(str)
        /\ str[e + 1] = "ENDASH"
        /\ str[e + 2] = "RUPEE"
        /\ RunEnd(str, e + 3) >= e + 3

NoRange == [found |-> FALSE, min |-> NaN, max |-> NaN]

\* extractRange: the two captured groups of the leftmost match, or null.
extractRange(str) ==
  LET starts == {i \in 1..Len(str) : RangeAt(str, i)}
  IN IF starts = {} THEN NoRange
     ELSE LET i == CHOOSE j \in starts : \A k \in starts : j <= k
              e == RunEnd(str, i + 1)
          IN [found |-> TRUE,
              min |-> parseIntDigits(StripCommas(SubSeq(str, i + 1, e))),
              max |-> parseIntDigits(StripCommas(SubSeq(str, e + 3, RunEnd(str, e + 3))))]

(***************************************************************************)
(* The pension calculator                                                  *)
(***************************************************************************)
\* Math.pow(1 + rate, year) is held in fixed point: the value times PowScale,
\* rounded to the nearest unit.  The rate 1 + rate is the fraction rn/rd.
PowScale == 10 * 10 * 10 * 10

\* The accumulation loop `for (year = 1; year <= yearsOfService; year++)
\* corpus += c * Math.pow(1 + rate, year)` with the loop-invariant factor c
\* taken out: pow is Math.pow(1 + rate, year - 1) and acc the sum so far, both
\* times PowScale.
RECURSIVE PowLoop(_, _, _, _, _, _)
PowLoop(rn, rd, year, yearsOfService, pow, acc) ==
  IF year > yearsOfService THEN acc
  ELSE LET next == Round(pow * rn, rd)
       IN PowLoop(rn, rd, year + 1, yearsOfService, next, acc + next)

\* The loop started at year 0.
SumPowFromYearZero(rn, rd, yearsOfService) ==
  PowLoop(rn, rd, 0, yearsOfService, PowScale, 0)

SumPow(rn, rd, yearsOfService) == PowLoop(rn, rd, 1, yearsOfService, PowScale, 0)

\* Math.round(a * b / d) for b >= 0 and 0 < d, computed without leaving the
\* 32-bit integers: a * b = (a * (b div d) + (a div d) * (b mod d)) * d
\*                          + (a mod d) * (b mod d).
SmallFactor == 10 * 10

RoundMulDiv(a, b, d) ==
  IF -SmallFactor <= a /\ a <= SmallFactor THEN Round(a * b, d)
  ELSE a * (b \div d) + (a \div d) * (b % d) + Round((a % d) * (b % d), d)

\* Line 194, before the try block: `scheme.pension_formula?.toLowerCase()`
\* throws a TypeError when the field holds a value that is neither nullish
\* nor a string (it has no toLowerCase method).
calculatePensionThrows(scheme) ==
  scheme.pension_formula.k \notin {"undefined", "null", "string"}

\* The return value of the catch block.
ErrorEstimate ==
  [type |-> "error", monthlyPension |-> Num(0), annualPension |-> Num(0)]

\* Whether a statement inside the try block throws.  With `formula` a string
\* and `scheme` an object (line 194 has run) every call made there
\* (includes, match, replace, parseInt, Math.*, toLocaleString) returns.
TryBlockThrows(scheme, userProfile) == FALSE

\* The conditions of the seven rules, on the lower-cased formula text.
IsFixedMonthly(formula) ==
  includes(formula, "RUPEE") /\ includes(formula, "per month")

IsRangeBased(formula) ==
  /\ includes(formula, "ENDASH") /\ includes(formula, "per month")
  /\ extractRange(formula).found

IsEps(formula) ==
  includes(formula, "pensionable salary") /\ includes(formula, "pensionable service")

IsEpf(formula) ==
  includes(formula, "accumulates") /\ includes(formula, "contributions")

IsNps(formula) == includes(formula, "market") /\ includes(formula, "corpus")

FixedMonthlyEstimate(formula) ==
  LET amount == extractNumber(formula)
  IN [type |-> "fixed_monthly",
      monthlyPension |-> amount,
      annualPension |-> Times(amount, 12)]

RangeBasedEstimate(formula, annualSalary) ==
  LET range == extractRange(formula)
      estimatedAmount ==
        IF annualSalary <= 300000 THEN range.min
        ELSE IF annualSalary <= 1000000 THEN Midpoint(range.min, range.max)
        ELSE range.max
  IN [type |-> "range_based",
      monthlyPension |-> estimatedAmount,
      annualPension |-> Times(estimatedAmount, 12),
      range |-> [min |-> range.min, max |-> range.max]]

\* The EPS estimate with Math.floor in the place of Math.round.
EpsEstimateFloored(msN, msD, yearsOfService) ==
  LET psN == Min(msN, 15000 * msD)
  IN [type |-> "eps_formula",
      monthlyPension |-> Num((psN * yearsOfService * 833) \div (msD * 100000)),
      annualPension |-> Num((psN * yearsOfService * 2499) \div (msD * 25000))]

\* msN / msD is monthlySalaryForCalc.  pensionableSalary * yearsOfService *
\* 0.00833 = psN * yearsOfService * 833 / (msD * 100000).
EpsEstimate(msN, msD, yearsOfService) ==
  LET psN == Min(msN, 15000 * msD)
  IN [type |-> "eps_formula",
      monthlyPension |-> Num(Round(psN * yearsOfService * 833, msD * 100000)),
      annualPension |-> Num(Round(psN * yearsOfService * 2499, msD * 25000))]

\* The accumulation estimate at an interest of 8% a year.
EpfEstimateAtEightPercent(msN, msD, yearsOfService) ==
  LET corpus == RoundMulDiv(msN * 9, SumPow(27, 25, yearsOfService),
                            msD * 31250)
  IN [type |-> "epf_accumulation",
      monthlyPension |-> Num(0),
      annualPension |-> Num(0),
      lumpSumCorpus |-> corpus]

\* totalMonthlyContribution * 12 = ms * 0.24 * 12 = msN * 72 / (msD * 25);
\* the rate 1.085 is 217/200.
EpfEstimate(msN, msD, yearsOfService) ==
  LET corpus == RoundMulDiv(msN * 9, SumPow(217, 200, yearsOfService),
                            msD * 31250)
  IN [type |-> "epf_accumulation",
      monthlyPension |-> Num(0),
      annualPension |-> Num(0),
      lumpSumCorpus |-> corpus]

\* The market-linked estimate with the corpus split in two halves.
NpsEstimateEvenSplit(msN, msD, yearsOfService) ==
  LET corpus == RoundMulDiv(msN * 3, SumPow(11, 10, yearsOfService),
                            msD * 12500)
  IN [type |-> "nps_market_linked",
      monthlyPension |-> Num(Round(corpus, 400)),
      annualPension |-> Num(Round(corpus * 3, 100)),
      lumpSumCorpus |-> Round(corpus, 2),
      annuityCorpus |-> Round(corpus, 2)]

\* totalMonthlyContribution * 12 = ms * 0.20 * 12 = msN * 12 / (msD * 5); the
\* rate 1.10 is 11/10.  monthlyAnnuity = corpus * 0.4 * 0.06 / 12 = corpus / 500.
NpsEstimate(msN, msD, yearsOfService) ==
  LET corpus == RoundMulDiv(msN * 3, SumPow(11, 10, yearsOfService),
                            msD * 12500)
  IN [type |-> "nps_market_linked",
      monthlyPension |-> Num(Round(corpus, 500)),
      annualPension |-> Num(Round(corpus * 3, 125)),
      lumpSumCorpus |-> Round(corpus * 3, 5),
      annuityCorpus |-> Round(corpus * 2, 5)]

\* The fixed-contribution estimate without the government's co-contribution.
FixedContributionSelfOnly(type, monthlyContribution, govtContribution, yearsOfService) ==
  LET corpus == RoundMulDiv(monthlyContribution * 12,
                            SumPow(27, 25, yearsOfService), PowScale)
  IN [type |-> type,
      monthlyPension |-> Num(Round(corpus, 200)),
      annualPension |-> Num(Round(corpus * 3, 50)),
      corpus |-> corpus]

\* The two fixed-contribution schemes: (monthlyContribution + govtContribution)
\* * 12 a year at 8% (27/25); monthlyPension = corpus * 0.06 / 12 = corpus / 200.
FixedContributionEstimate(type, monthlyContribution, govtContribution, yearsOfService) ==
  LET corpus == RoundMulDiv((monthlyContribution + govtContribution) * 12,
                            SumPow(27, 25, yearsOfService), PowScale)
  IN [type |-> type,
      monthlyPension |-> Num(Round(corpus, 200)),
      annualPension |-> Num(Round(corpus * 3, 50)),
      corpus |-> corpus]

\* monthlySalaryForCalc * 0.4 = msN * 2 / (msD * 5).
DefaultEstimate(msN, msD) ==
  [type |-> "default",
   monthlyPension |-> Num(Round(msN * 2, msD * 5)),
   annualPension |-> Num(Round(msN * 24, msD * 5))]

\* The try block with the checks of the EPS rule and of the accumulation rule
\* in the other order.
TryBlockAccumulationFirst(scheme, userProfile) ==
  LET age == userProfile.age
      annualSalary == userProfile.annualSalary
      monthlySalary == userProfile.monthlySalary
      formula == IF scheme.pension_formula.k = "string"
                 THEN toLowerCase(scheme.pension_formula.v) ELSE <<>>
      yearsOfService == Min(Max(0, 60 - age), 40)
      msN == IF monthlySalary # 0 THEN monthlySalary ELSE annualSalary
      msD == IF monthlySalary # 0 THEN 1 ELSE 12
  IN IF IsFixedMonthly(formula) THEN FixedMonthlyEstimate(formula)
     ELSE IF IsRangeBased(formula) THEN RangeBasedEstimate(formula, annualSalary)
     ELSE IF IsEpf(formula) THEN EpfEstimate(msN, msD, yearsOfService)
     ELSE IF IsEps(formula) THEN EpsEstimate(msN, msD, yearsOfService)
     ELSE IF IsNps(formula) THEN NpsEstimate(msN, msD, yearsOfService)
     ELSE IF scheme.scheme_id = "APY"
       THEN FixedContributionEstimate("apy_fixed", 100, 50, yearsOfService)
     ELSE IF scheme.scheme_id = "PM_SYM"
       THEN FixedContributionEstimate("pm_sym", 100, 100, yearsOfService)
     ELSE DefaultEstimate(msN, msD)

\* The body of the try block: the first rule whose condition holds.
TryBlock(scheme, userProfile) ==
  LET age == userProfile.age
      annualSalary == userProfile.annualSalary
      monthlySalary == userProfile.monthlySalary
      formula == IF scheme.pension_formula.k = "string"
                 THEN toLowerCase(scheme.pension_formula.v) ELSE <<>>
      yearsToRetirement == Max(0, 60 - age)
      yearsOfService == Min(yearsToRetirement, 40)
      \* monthlySalary || annualSalary / 12
      msN == IF monthlySalary # 0 THEN monthlySalary ELSE annualSalary
      msD == IF monthlySalary # 0 THEN 1 ELSE 12
  IN IF IsFixedMonthly(formula) THEN FixedMonthlyEstimate(formula)
     ELSE IF IsRangeBased(formula) THEN RangeBasedEstimate(formula, annualSalary)
     ELSE IF IsEps(formula) THEN EpsEstimate(msN, msD, yearsOfService)
     ELSE IF IsEpf(formula) THEN EpfEstimate(msN, msD, yearsOfService)
     ELSE IF IsNps(formula) THEN NpsEstimate(msN, msD, yearsOfService)
     ELSE IF scheme.scheme_id = "APY"
       THEN FixedContributionEstimate("apy_fixed", 100, 50, yearsOfService)
     ELSE IF scheme.scheme_id = "PM_SYM"
       THEN FixedContributionEstimate("pm_sym", 100, 100, yearsOfService)
     ELSE DefaultEstimate(msN, msD)

\* calculatePension for a call that returns (see calculatePensionThrows).
calculatePension(scheme, userProfile) ==
  IF TryBlockThrows(scheme, userProfile) THEN ErrorEstimate
  ELSE TryBlock(scheme, userProfile)

\* The outcome of a call: the value returned, or that an exception left it.
Returned(v) == [threw |-> FALSE, value |-> v]

Threw == [threw |-> TRUE, value |-> <<>>]

calculatePensionCall(scheme, userProfile) ==
  IF calculatePensionThrows(scheme) THEN Threw
  ELSE Returned(calculatePension(scheme, userProfile))

\* The object spread { ...obj, <the fields of extra> }.
Spread(obj, extra) ==
  [f \in DOMAIN obj \cup DOMAIN extra |->
     IF f \in DOMAIN extra THEN extra[f] ELSE obj[f]]

\* calculatePensionsForSchemes: schemes.map(...); an exception of one call
\* of calculatePension leaves map and the function.
calculatePensionsForSchemes(schemes, userProfile) ==
  IF \E i \in 1..Len(schemes) : calculatePensionThrows(schemes[i]) THEN Threw
  ELSE Returned([i \in 1..Len(schemes) |->
                  Spread(schemes[i],
                         [pensionCalculation |->
                            calculatePension(schemes[i], userProfile)])])

(***************************************************************************)
(* getPensionInsights                                                      *)
(***************************************************************************)
\* The sum of the field over every estimate, whatever its monthlyPension.
RECURSIVE TotalOfEvery(_, _, _)
TotalOfEvery(schemesWithCalculations, field, n) ==
  IF n = 0 THEN Num(0)
  ELSE Plus(TotalOfEvery(schemesWithCalculations, field, n - 1),
            schemesWithCalculations[n].pensionCalculation[field])

\* The forEach loop of getPensionInsights over the first n schemes: the sum
\* of the field `field` of the estimates whose monthlyPension > 0.
RECURSIVE TotalOf(_, _, _)
TotalOf(schemesWithCalculations, field, n) ==
  IF n = 0 THEN Num(0)
  ELSE LET rest == TotalOf(schemesWithCalculations, field, n - 1)
           calc == schemesWithCalculations[n].pensionCalculation
       IN IF Greater(calc.monthlyPension, 0) THEN Plus(rest, calc[field]) ELSE rest

\* The comparison with <= in the place of <, cross-multiplied.
LowReplacementRatioInclusive(totalAnnualPension, annualSalary) ==
  ~IsNaN(totalAnnualPension) /\ Twice(totalAnnualPension) * 5 <= 3 * annualSalary

\* totalAnnualPension / annualSalary < 0.3.  The quotient is NaN (0/0) or
\* Infinity when annualSalary = 0, and then no comparison holds.
LowReplacementRatio(totalAnnualPension, annualSalary) ==
  IF IsNaN(totalAnnualPension) \/ annualSalary = 0 THEN FALSE
  ELSE IF annualSalary > 0 THEN Twice(totalAnnualPension) * 5 < 3 * annualSalary
  ELSE Twice(totalAnnualPension) * 5 > 3 * annualSalary

\* The items in the place of the array when the condition holds.
PushIfReplaces(cond, array, items) == IF cond THEN items ELSE array

\* array.push of the items when the condition holds.
PushIf(cond, array, items) == IF cond THEN array \o items ELSE array

getPensionInsights(schemesWithCalculations, userProfile) ==
  LET age == userProfile.age
      annualSalary == userProfile.annualSalary
      n == Len(schemesWithCalculations)
      totalMonthlyPension == TotalOf(schemesWithCalculations, "monthlyPension", n)
      totalAnnualPension == TotalOf(schemesWithCalculations, "annualPension", n)
      tips1 == PushIf(age < 30, <<>>,
                 <<"Start early! Consider NPS for long-term wealth creation">>)
      rec1 == PushIf(age < 30, <<>>, <<"NPS_Tier_I">>)
      tips2 == PushIf(age >= 18 /\ age <= 40, tips1,
                 <<"APY and PM-SYM are excellent for unorganized sector workers">>)
      rec2 == PushIf(age >= 18 /\ age <= 40, rec1, <<"APY", "PM_SYM">>)
      tips3 == PushIf(annualSalary <= 300000, tips2,
                 <<"Consider government schemes like PMKMY and PM-LVM for low-income groups">>)
      rec3 == PushIf(annualSalary <= 300000, rec2, <<"PMKMY", "PM_LVM">>)
      tips4 == PushIf(age >= 60, tips3,
                 <<"Focus on immediate pension schemes like SCSS and PMVVY">>)
      rec4 == PushIf(age >= 60, rec3, <<"SCSS", "PMVVY">>)
      warn1 == PushIf(LowReplacementRatio(totalAnnualPension, annualSalary), <<>>,
                 <<"Your pension replacement ratio is low. Consider additional savings.">>)
      warn2 == PushIf(Less(totalMonthlyPension, 5000), warn1,
                 <<"Total monthly pension is below RUPEE 5,000. Consider multiple schemes.">>)
  IN [totalMonthlyPension |-> totalMonthlyPension,
      totalAnnualPension |-> totalAnnualPension,
      recommendedSchemes |-> rec4,
      warnings |-> warn2,
      tips |-> tips4]

(***************************************************************************)
(* Query parameters                                                        *)
(***************************************************************************)
\* What searchParams.get returns: null, or the string of the characters v.
Absent == [k |-> "null", v |-> <<>>]

Str(v) == [k |-> "string", v |-> v]

Undefined == [t |-> "undefined", n |-> 0]

RECURSIVE DigitRunEnd(_, _)
DigitRunEnd(str, i) ==
  IF i <= Len(str) /\ str[i] \in Digits THEN DigitRunEnd(str, i + 1) ELSE i - 1

\* parseInt of a query value: an optional sign and the leading digits; NaN
\* when there is no digit there, and for null (parseInt reads "null").
parseInt(param) ==
  IF param.k = "null" THEN NaN
  ELSE LET str == param.v
           negative == Len(str) >= 1 /\ str[1] = "-"
           first == IF negative THEN 2 ELSE 1
           last == DigitRunEnd(str, first)
           magnitude == DecimalValue(SubSeq(str, first, last))
       IN IF last < first THEN NaN
          ELSE Num(IF negative THEN 0 - magnitude ELSE magnitude)

\* `x ? parseInt(x, 10) : undefined` of the allroutes handler: null and the
\* empty string are falsy.
parseIntOptional(param) ==
  IF param.k = "null" \/ param.v = <<>> THEN Undefined ELSE parseInt(param)

\* Number.isFinite
isFinite(x) == x.t = "num"

\* !x for a number: true of NaN and of 0.
Not(x) == IsNaN(x) \/ (x.t = "num" /\ x.n = 0)

\* String.prototype.trim on a country name.
trim(c) ==
  CASE c = " India " -> "India"
    [] c = " " -> ""
    [] OTHER -> c

\* A value of the `countries` (or `country`) parameter is the sequence of its
\* comma-separated parts: split(',') returns them.  The empty string is <<"">>.
EmptyString == <<"">>

RECURSIVE flatMapSplit(_)
flatMapSplit(countriesParam) ==
  IF countriesParam = <<>> THEN <<>>
  ELSE Head(countriesParam) \o flatMapSplit(Tail(countriesParam))

\* getAll('countries'), or [get('country')] when that is empty and `country`
\* is a non-empty string.
CountriesParam(req) ==
  IF req.countries # <<>> THEN req.countries
  ELSE IF req.country.k = "string" /\ req.country.v # EmptyString
    THEN <<req.country.v>>
  ELSE <<>>

\* .flatMap(entry => String(entry).split(',')).map(s => s.trim()).filter(Boolean)
NormalizedCountries(countriesParam) ==
  LET parts == flatMapSplit(countriesParam)
      trimmed == [i \in 1..Len(parts) |-> trim(parts[i])]
  IN SelectSeq(trimmed, LAMBDA c : c # "")

\* new Set(normalizedCountries.map(c => c.toLowerCase()))
CountriesLower(normalizedCountries) ==
  {LowerToken(normalizedCountries[i]) : i \in 1..Len(normalizedCountries)}

\* The country test without the lower-casing of the record's country.
CountryMatchesCaseSensitive(s, countriesLower) ==
  /\ s.country.k = "string"
  /\ s.country.v # ""
  /\ s.country.v \in countriesLower

\* s.country && countriesLower.has(String(s.country).toLowerCase())
CountryMatches(s, countriesLower) ==
  /\ s.country.k = "string"
  /\ s.country.v # ""
  /\ LowerToken(s.country.v) \in countriesLower

CountryFilter(data, countriesLower) ==
  SelectSeq(data, LAMBDA s : CountryMatches(s, countriesLower))

(***************************************************************************)
(* GET /api/pension-schemes                                                *)
(***************************************************************************)
\* `x !== undefined && x !== null && x !== ''` for an age bound.
Present(bound) == bound.k = "number"

\* The age check with the maxAge test assigned over the minAge test.
AgeEligibleMaxOverwrites(scheme, age) ==
  LET minAge == scheme.eligibility_age_min
      maxAge == scheme.eligibility_age_max
  IN IF Present(maxAge) THEN age <= maxAge.v
     ELSE IF Present(minAge) THEN age >= minAge.v ELSE TRUE

AgeEligible(scheme, age) ==
  LET minAge == scheme.eligibility_age_min
      maxAge == scheme.eligibility_age_max
      first == IF Present(minAge) THEN age >= minAge.v ELSE TRUE
  IN IF Present(maxAge) THEN first /\ age <= maxAge.v ELSE first

\* The income check with the cap's bound for the BPL marker too.
IncomeEligibleOneBound(scheme, annualSalary) ==
  LET incomeCriteria == IF scheme.income_criteria.k = "string"
                        THEN toLowerCase(scheme.income_criteria.v) ELSE <<>>
  IN IF \/ includes(incomeCriteria, "bpl")
        \/ includes(incomeCriteria, "below poverty line")
        \/ includes(incomeCriteria, "income cap")
        \/ includes(incomeCriteria, "threshold")
     THEN annualSalary <= 500000 ELSE TRUE

\* The second assignment overwrites the first.
IncomeEligible(scheme, annualSalary) ==
  LET incomeCriteria == IF scheme.income_criteria.k = "string"
                        THEN toLowerCase(scheme.income_criteria.v) ELSE <<>>
      afterBpl == IF includes(incomeCriteria, "bpl")
                     \/ includes(incomeCriteria, "below poverty line")
                  THEN annualSalary <= 300000 ELSE TRUE
  IN IF includes(incomeCriteria, "income cap") \/ includes(incomeCriteria, "threshold")
     THEN annualSalary <= 500000 ELSE afterBpl

SchemeSpecificEligible(scheme, age) ==
  LET id == scheme.scheme_id
  IN IF id \in {"NSAP_IGNOAPS", "SCSS", "PMVVY"} THEN age >= 60
     ELSE IF id \in {"APY", "PM_SYM", "PMKMY", "PM_LVM"} THEN age >= 18 /\ age <= 40
     ELSE IF id = "NPS_Tier_I" THEN age >= 18 /\ age <= 70
     ELSE TRUE

\* A filter in which the hard-coded window of an identifier replaces the
\* check of the record's own age bounds.
EligibleWindowSupersedes(scheme, age, annualSalary) ==
  /\ IncomeEligible(scheme, annualSalary)
  /\ IF scheme.scheme_id \in {"NSAP_IGNOAPS", "SCSS", "PMVVY", "APY", "PM_SYM",
                               "PMKMY", "PM_LVM", "NPS_Tier_I"}
     THEN SchemeSpecificEligible(scheme, age)
     ELSE AgeEligible(scheme, age)

\* The conjunction of line 158 without its two age conjuncts.
EligibleWhateverAge(scheme, age, annualSalary) == IncomeEligible(scheme, annualSalary)

\* The conjunction of line 158 without its income conjunct.
EligibleWhateverIncome(scheme, age, annualSalary) ==
  AgeEligible(scheme, age) /\ SchemeSpecificEligible(scheme, age)

Eligible(scheme, age, annualSalary) ==
  /\ AgeEligible(scheme, age)
  /\ IncomeEligible(scheme, annualSalary)
  /\ SchemeSpecificEligible(scheme, age)

\* The age bracket's bonus with the bracket's recommendation given to every
\* scheme, on the allow-list or not.
AgeBracketRecommendsAll(scheme, age) ==
  LET id == scheme.scheme_id
  IN IF age >= 18 /\ age <= 40
     THEN [score |-> IF id \in {"APY", "PM_SYM", "PMKMY", "PM_LVM", "NPS_Tier_I"}
                     THEN 3 ELSE 0,
           recommendation |-> "Excellent for long-term retirement planning"]
     ELSE IF age >= 41 /\ age <= 59
     THEN [score |-> IF id \in {"NPS_Tier_I", "EPF", "EPS"} THEN 3 ELSE 0,
           recommendation |-> "Good for mid-career retirement planning"]
     ELSE IF age >= 60
     THEN [score |-> IF id \in {"NSAP_IGNOAPS", "SCSS", "PMVVY"} THEN 3 ELSE 0,
           recommendation |-> "Suitable for immediate pension benefits"]
     ELSE [score |-> 0, recommendation |-> ""]

\* The age bracket's allow-list and recommendation, if that bracket grants
\* its bonus to the scheme.
AgeBracket(scheme, age) ==
  LET id == scheme.scheme_id
  IN IF age >= 18 /\ age <= 40
     THEN IF id \in {"APY", "PM_SYM", "PMKMY", "PM_LVM", "NPS_Tier_I"}
          THEN [score |-> 3, recommendation |-> "Excellent for long-term retirement planning"]
          ELSE [score |-> 0, recommendation |-> ""]
     ELSE IF age >= 41 /\ age <= 59
     THEN IF id \in {"NPS_Tier_I", "EPF", "EPS"}
          THEN [score |-> 3, recommendation |-> "Good for mid-career retirement planning"]
          ELSE [score |-> 0, recommendation |-> ""]
     ELSE IF age >= 60
     THEN IF id \in {"NSAP_IGNOAPS", "SCSS", "PMVVY"}
          THEN [score |-> 3, recommendation |-> "Suitable for immediate pension benefits"]
          ELSE [score |-> 0, recommendation |-> ""]
     ELSE [score |-> 0, recommendation |-> ""]

IncomeBracketScore(scheme, annualSalary) ==
  LET id == scheme.scheme_id
  IN IF annualSalary <= 300000
     THEN IF id \in {"APY", "PM_SYM", "PMKMY", "PM_LVM", "NSAP_IGNOAPS"} THEN 2 ELSE 0
     ELSE IF annualSalary <= 1000000
     THEN IF id \in {"NPS_Tier_I", "EPF", "EPS"} THEN 2 ELSE 0
     ELSE IF id \in {"NPS_Tier_I", "SCSS", "PMVVY"} THEN 2 ELSE 0

\* A sector bonus granted to every sector.
SectorScoreForAll(scheme) == 1

SectorScore(scheme) == IF scheme.sector = "All" THEN 1 ELSE 0

\* The callback of eligibleSchemes.map: a copy of the record with the score,
\* the recommendation and the eligibility flags.
WithRecommendation(scheme, age, annualSalary) ==
  LET bracket == AgeBracket(scheme, age)
      relevanceScore == bracket.score + IncomeBracketScore(scheme, annualSalary)
                          + SectorScore(scheme)
  IN Spread(scheme,
       [relevanceScore |-> relevanceScore,
        recommendation |-> IF bracket.recommendation # "" THEN bracket.recommendation
                           ELSE "Consider based on your specific needs",
        eligibility |-> [ageEligible |-> TRUE, incomeEligible |-> TRUE,
                         sectorEligible |-> TRUE]])

\* Array.prototype.sort with (a, b) => b.relevanceScore - a.relevanceScore: a
\* stable sort, highest score first.  x goes behind every element that does
\* not score less.
\* An insertion that puts x ahead of the elements of equal score.
RECURSIVE InsertAheadOfEqual(_, _)
InsertAheadOfEqual(sorted, x) ==
  IF sorted = <<>> THEN <<x>>
  ELSE IF Head(sorted).relevanceScore > x.relevanceScore
    THEN <<Head(sorted)>> \o InsertAheadOfEqual(Tail(sorted), x)
  ELSE <<x>> \o sorted

RECURSIVE InsertByScore(_, _)
InsertByScore(sorted, x) ==
  IF sorted = <<>> THEN <<x>>
  ELSE IF Head(sorted).relevanceScore >= x.relevanceScore
    THEN <<Head(sorted)>> \o InsertByScore(Tail(sorted), x)
  ELSE <<x>> \o sorted

RECURSIVE SortPrefix(_, _)
SortPrefix(array, n) ==
  IF n = 0 THEN <<>> ELSE InsertByScore(SortPrefix(array, n - 1), array[n])

SortByRelevance(array) == SortPrefix(array, Len(array))

BadRequest(message) == [status |-> 400, success |-> FALSE, message |-> message]

NotFound(message) == [status |-> 404, success |-> FALSE, message |-> message]

ServerError(message) == [status |-> 500, success |-> FALSE, message |-> message]

\* The arguments and the outcome of the handler's call of
\* calculatePensionsForSchemes (followed, if it returned, by getPensionInsights
\* with the same age and annualSalary).
CoreCall(schemes, userProfile) ==
  [k |-> "called", schemes |-> schemes, userProfile |-> userProfile,
   outcome |-> calculatePensionsForSchemes(schemes, userProfile)]

UserProfile(age, annualSalary) ==
  [age |-> age, annualSalary |-> annualSalary,
   monthlySalary |-> Round(annualSalary, 12)]

\* The success response with calculations and insights.
SuccessResponse(call, normalizedCountries, message) ==
  LET schemesWithPensions == call.outcome.value
  IN [status |-> 200, success |-> TRUE, message |-> message,
      countries |-> normalizedCountries,
      userProfile |-> call.userProfile,
      totalSchemes |-> Len(schemesWithPensions),
      schemes |-> schemesWithPensions,
      pensionInsights |->
        getPensionInsights(schemesWithPensions,
          [age |-> call.userProfile.age,
           annualSalary |-> call.userProfile.annualSalary])]

\* A handler that answered an empty list of schemes with a 404.
EnrichedNotFoundWhenEmpty(call, normalizedCountries, message, failure) ==
  IF call.outcome.threw THEN ServerError(failure)
  ELSE IF call.outcome.value = <<>>
    THEN NotFound("No eligible pension schemes found for your profile.")
  ELSE SuccessResponse(call, normalizedCountries, message)

\* The response with calculations, or the 500 of the handler's catch block
\* when the calculator threw.
Enriched(call, normalizedCountries, message, failure) ==
  IF call.outcome.threw THEN ServerError(failure)
  ELSE SuccessResponse(call, normalizedCountries, message)

\* The handler of GET /api/pension-schemes: its response and its call of the
\* calculator, if it made one.
PensionSchemesGET(req, data) ==
  LET age == parseInt(req.age)
      annualSalary == parseInt(req.annualSalary)
      countriesParam == CountriesParam(req)
      normalizedCountries == NormalizedCountries(countriesParam)
      countriesLower == CountriesLower(normalizedCountries)
      countryFilteredSchemes == CountryFilter(data, countriesLower)
      eligibleSchemes ==
        SelectSeq(countryFilteredSchemes, LAMBDA s : Eligible(s, age.n, annualSalary.n))
      schemesWithRecommendations ==
        SortByRelevance([i \in 1..Len(eligibleSchemes) |->
          WithRecommendation(eligibleSchemes[i], age.n, annualSalary.n)])
      call == CoreCall(schemesWithRecommendations, UserProfile(age.n, annualSalary.n))
  IN IF Not(age) \/ Not(annualSalary) \/ Len(countriesParam) = 0
     THEN [response |-> BadRequest("Missing required parameters: age, annualSalary, and countries are required"),
           core |-> None]
     ELSE IF Len(normalizedCountries) = 0
     THEN [response |-> BadRequest("No valid country names provided after parsing the \"countries\" parameter"),
           core |-> None]
     ELSE IF age.n < 0 \/ age.n > 120
     THEN [response |-> BadRequest("Invalid age: Age must be between 0 and 120"),
           core |-> None]
     ELSE IF annualSalary.n < 0
     THEN [response |-> BadRequest("Invalid annual salary: Salary must be positive"),
           core |-> None]
     ELSE IF Len(countryFilteredSchemes) = 0
     THEN [response |-> NotFound("No schemes found for the requested countries"),
           core |-> None]
     ELSE [response |-> Enriched(call, normalizedCountries,
                                 "Pension schemes retrieved successfully",
                                 "Failed to fetch pension schemes"),
           core |-> call]

(***************************************************************************)
(* GET /api/allroutes                                                      *)
(***************************************************************************)
AllRoutesGET(req, data) ==
  LET countriesParam == CountriesParam(req)
      normalizedCountries == NormalizedCountries(countriesParam)
      countriesLower == CountriesLower(normalizedCountries)
      filteredSchemes == CountryFilter(data, countriesLower)
      age == parseIntOptional(req.age)
      annualSalary == parseIntOptional(req.annualSalary)
      call == CoreCall(filteredSchemes, UserProfile(age.n, annualSalary.n))
  IN IF Len(countriesParam) = 0
     THEN [response |-> BadRequest("Missing required parameter: countries (use comma-separated or repeated params)"),
           core |-> None]
     ELSE IF Len(normalizedCountries) = 0
     THEN [response |-> BadRequest("No valid country names provided after parsing the \"countries\" parameter"),
           core |-> None]
     ELSE IF Len(filteredSchemes) = 0
     THEN [response |-> NotFound("No schemes found for the requested countries"),
           core |-> None]
     ELSE IF isFinite(age) /\ isFinite(annualSalary)
     THEN [response |-> Enriched(call, normalizedCountries,
                                 "Schemes fetched and calculations computed successfully",
                                 "Failed to fetch schemes"),
           core |-> call]
     ELSE [response |-> [status |-> 200, success |-> TRUE,
                         message |-> "Schemes fetched successfully",
                         countries |-> normalizedCountries,
                         totalSchemes |-> Len(filteredSchemes),
                         schemes |-> filteredSchemes],
           core |-> None]

(***************************************************************************)
(* The dataset and the requests                                            *)
(***************************************************************************)
Bound(n) == [k |-> "number", v |-> n]

NoBound(kind) == [k |-> kind, v |-> 0]

Missing == [k |-> "undefined", v |-> <<>>]

Scheme(id, country, sector, minAge, maxAge, income, formula) ==
  [scheme_id |-> id, country |-> country, sector |-> sector,
   eligibility_age_min |-> minAge, eligibility_age_max |-> maxAge,
   income_criteria |-> income, pension_formula |-> formula]

\* Records as PensionDB.json may hold them: the identifiers the code names, a
\* record of another country and one without a country.
Catalogue ==
  << Scheme("APY", Str("India"), "Unorganized", Bound(18), Bound(40), Missing,
            Str(<<"RUPEE", "1", ",", "0", "0", "0", "ENDASH",
                  "RUPEE", "5", ",", "0", "0", "0", " ", "per month">>)),
     Scheme("NSAP_IGNOAPS", Str("INDIA"), "All", Bound(60), NoBound("null"),
            Str(<<"BPL">>),
            Str(<<"RUPEE", "2", "0", "0", " ", "Per Month">>)),
     Scheme("NPS_Tier_I", Str("India"), "All", Bound(18), Bound(65), Missing,
            Str(<<"Market", " ", "corpus">>)),
     Scheme("EPS", Str("India"), "Organized", NoBound("undefined"), Bound(58),
            Str(<<"Income Cap">>),
            Str(<<"Pensionable Salary", "x", "Pensionable Service", "/", "7", "0">>)),
     Scheme("JP_NP", Str("Japan"), "All", Bound(20), Bound(59), Missing, Missing),
     Scheme("EPF", Str("India"), "Organized", NoBound("undefined"),
            NoBound("empty"), Str(<<"none">>),
            Str(<<"accumulates", " ", "contributions">>)),
     Scheme("PM_SYM", Str("India"), "Unorganized", Bound(18), Bound(40),
            Str(<<"Below Poverty Line", " ", "threshold">>), Str(<<>>)),
     Scheme("PMKMY", Str("india"), "Agriculture", Bound(18), Bound(40),
            Str(<<"bpl">>),
            Str(<<"pension", ",", " ", "RUPEE", "3", ",", "0", "0", "0", " ",
                  "per month">>)),
     Scheme("NO_COUNTRY", Missing, "All", NoBound("undefined"),
            NoBound("undefined"), Missing, Str(<<"lump sum">>)) >>

\* The longest dataset explored.
MaxSchemes == 3

\* The datasets explored: every run of 1..MaxSchemes consecutive records of
\* the catalogue.
Datasets ==
  {SubSeq(Catalogue, i, j) : <<i, j>> \in
     {w \in (1..Len(Catalogue)) \X (1..Len(Catalogue)) :
        w[1] <= w[2] /\ w[2] - w[1] < MaxSchemes}}

DigitChar(d) ==
  CASE d = 0 -> "0" [] d = 1 -> "1" [] d = 2 -> "2" [] d = 3 -> "3"
    [] d = 4 -> "4" [] d = 5 -> "5" [] d = 6 -> "6" [] d = 7 -> "7"
    [] d = 8 -> "8" [] d = 9 -> "9"

\* The decimal digits of n >= 0, as a client writes them into the URL.
RECURSIVE DecimalChars(_)
DecimalChars(n) ==
  IF n < 10 THEN <<DigitChar(n)>>
  ELSE DecimalChars(n \div 10) \o <<DigitChar(n % 10)>>

NumberParam(n) ==
  Str(IF n < 0 THEN <<"-">> \o DecimalChars(0 - n) ELSE DecimalChars(n))

RequestAges == {0 - 1, 0, 10, 18, 45, 60, 70, 120, 121}

RequestSalaries == {0 - 1, 0, 250000, 400000, 600000, 1200000}

AgeParams ==
  {NumberParam(n) : n \in RequestAges} \cup {Absent, Str(<<"3", "0", ".", "9">>)}

SalaryParams ==
  {NumberParam(n) : n \in RequestSalaries} \cup {Str(<<"a", "b", "c">>)}

\* <<countries, country>>: the values of the repeated `countries` parameter
\* and of the single `country` parameter.
CountryParams ==
  { <<<< <<"India">> >>, Absent>>,
    <<<< <<" India ", "Japan">> >>, Absent>>,
    <<<< <<"Atlantis">>, <<"japan">> >>, Absent>>,
    <<<< <<"Atlantis">> >>, Str(<<"India">>)>>,
    <<<< <<"Ind">> >>, Absent>>,
    <<<< <<"", " ">> >>, Absent>>,
    <<<<>>, Str(<<"India">>)>>,
    <<<<>>, Str(EmptyString)>>,
    <<<<>>, Absent>> }

Requests ==
  {[handler |-> h, age |-> a, annualSalary |-> s, countries |-> c[1], country |-> c[2]] :
     h \in {"pension-schemes", "allroutes"}, a \in AgeParams, s \in SalaryParams,
     c \in CountryParams}

(***************************************************************************)
(* AuthContextProvider and Dashboard                                       *)
(***************************************************************************)
\* useState(null): no user.
NoUser == "null"

\* The users the identity provider can report.
Users == {"alice", "bob"}

\* No call of router.push('/') so far.
NoPush == [by |-> "none", loading |-> TRUE, user |-> NoUser]

\* What Dashboard returns: the spinner while loading, null without a user,
\* the dashboard body otherwise.
DashboardView(isLoading, currentUser) ==
  IF isLoading THEN "spinner" ELSE IF currentUser = NoUser THEN "null" ELSE "body"

\* The provider as constructed: useState(null), useState(true), no effect run
\* yet; the browser at the route `at`, Dashboard rendered once if it is
\* the dashboard's.
AuthConstructed(at) ==
  /\ user = NoUser
  /\ loading = TRUE
  /\ updates = <<>>
  /\ subscribed = FALSE
  /\ location = at
  /\ view = IF at = "/dashboard" THEN DashboardView(TRUE, NoUser) ELSE "none"
  /\ effectDue = (at = "/dashboard")
  /\ navigating = FALSE
  /\ pushed = NoPush
  /\ callbackFired = FALSE

(***************************************************************************)
(* The server: a request arrives, its handler runs to completion (there is *)
(* no await in either handler), the response is sent.                      *)
(***************************************************************************)
Init ==
  /\ dataset \in Datasets
  /\ pc = "idle"
  /\ request = None
  /\ response = None
  /\ core = None
  /\ calcScheme = None
  /\ calcBatch = <<>>
  /\ calcProfile = None
  /\ calcResult = None
  /\ calcInsights = None
  /\ AuthConstructed("/")

\* pensionDB had the handler written the fields it adds into the records
\* themselves: each record with a copy in `copies` is that copy.
pensionDBAnnotatedInPlace(data, copies) ==
  [i \in 1..Len(data) |->
     IF \E k \in 1..Len(copies) : copies[k].scheme_id = data[i].scheme_id
     THEN copies[CHOOSE k \in 1..Len(copies) : copies[k].scheme_id = data[i].scheme_id]
     ELSE data[i]]

\* pensionDB after a handler ran with `copies` its annotated schemes: filter
\* and map return new arrays, their callbacks and calculatePensionsForSchemes
\* build new objects with the spread, and sort orders the array that map
\* returned; no statement assigns to pensionDB or to a record of it.
pensionDBAfter(data, copies) == data

Receive ==
  /\ pc = "idle"
  /\ \E req \in Requests : request' = req
  /\ pc' = "received"
  /\ UNCHANGED <<dataset, response, core, calcVars, authVars>>

ServePensionSchemes ==
  /\ pc = "received"
  /\ request.handler = "pension-schemes"
  /\ LET out == PensionSchemesGET(request, dataset)
     IN /\ response' = out.response
        /\ core' = out.core
        /\ dataset' = pensionDBAfter(dataset, IF out.core = None THEN <<>>
                                              ELSE out.core.outcome.value)
  /\ pc' = "responded"
  /\ UNCHANGED <<request, calcVars, authVars>>

ServeAllRoutes ==
  /\ pc = "received"
  /\ request.handler = "allroutes"
  /\ LET out == AllRoutesGET(request, dataset)
     IN /\ response' = out.response
        /\ core' = out.core
        /\ dataset' = pensionDBAfter(dataset, IF out.core = None THEN <<>>
                                              ELSE out.core.outcome.value)
  /\ pc' = "responded"
  /\ UNCHANGED <<request, calcVars, authVars>>

\* The response is sent; nothing of the request outlives it.
Complete ==
  /\ pc = "responded"
  /\ pc' = "idle"
  /\ request' = None
  /\ response' = None
  /\ core' = None
  /\ UNCHANGED <<dataset, calcVars, authVars>>

Next == Receive \/ ServePensionSchemes \/ ServeAllRoutes \/ Complete

Spec == Init /\ [][Next]_vars

(***************************************************************************)
(* calculatePension as a function: the arguments are drawn, the call made. *)
(***************************************************************************)
\* The fragments a formula text is put together from, in this order; each
\* decides conditions of the rules.
Fragments ==
  << <<"RUPEE", "1", ",", "0", "0", "0", "ENDASH", "RUPEE", "5", ",", "0", "0", "1">>,
     <<"RUPEE", "3", ",", "0", "0", "0">>,
     <<"1", "0", "ENDASH", "2", "0">>,
     <<"Per Month">>,
     <<"pensionable salary">>,
     <<"Pensionable Service">>,
     <<"accumulates">>,
     <<"contributions">>,
     <<"market">>,
     <<"Corpus">> >>

\* The fragments chosen by `picked`, each followed by a space.
RECURSIVE Assemble(_, _)
Assemble(picked, n) ==
  IF n = 0 THEN <<>>
  ELSE Assemble(picked, n - 1)
         \o (IF n \in picked THEN Fragments[n] \o <<" ">> ELSE <<>>)

AssembledFormulas ==
  {Str(Assemble(picked, Len(Fragments))) : picked \in SUBSET (1..Len(Fragments))}

\* Formula fields worth a closer look: nothing to extract, a comma or a
\* number ahead of the amount, a range with an odd sum or without the rupee
\* sign, an absent field, a field that is no text.
ChosenFormulas ==
  { Str(<<"RUPEE", "3", ",", "0", "0", "0", " ", "per month">>),
    Str(<<"RUPEE", "1", ",", "0", "0", "0", "ENDASH", "RUPEE", "5", ",", "0", "0", "0",
          " ", "per month">>),
    Str(<<"RUPEE", "1", ",", "0", "0", "0", "ENDASH", "RUPEE", "5", ",", "0", "0", "1",
          " ", "Per Month">>),
    Str(<<"1", ",", "0", "0", "0", "ENDASH", "5", ",", "0", "0", "0", " ", "per month">>),
    Str(<<"pension", ",", " ", "RUPEE", "3", ",", "0", "0", "0", " ", "per month">>),
    Str(<<"age", " ", "6", "0", ":", " ", "RUPEE", "3", ",", "0", "0", "0", " ",
          "per month">>),
    Str(<<"RUPEE", " ", "per month">>),
    Str(<<"Pensionable Salary", "x", "Pensionable Service", "/", "7", "0">>),
    Str(<<"accumulates", " ", "contributions">>),
    Str(<<"Market", " ", "corpus">>),
    Str(<<"lump sum">>),
    Str(<<>>),
    Missing,
    [k |-> "null", v |-> <<>>],
    [k |-> "number", v |-> <<>>] }

CalcIds == {"APY", "PM_SYM", "EPF"}

CalcAges == {0, 20, 30, 59, 60, 120}

CalcSalaries == {0, 5, 120000, 240000, 250000, 300000, 600000, 1000000, 1200000}

CalcScheme(id, formula) ==
  Scheme(id, Str("India"), "All", NoBound("undefined"), NoBound("undefined"),
         Missing, formula)

\* Every assembled formula with one profile, every chosen formula with every
\* profile.
CalcInputs ==
  {<<CalcScheme(id, f), UserProfile(30, 600000)>> :
     id \in CalcIds, f \in AssembledFormulas}
  \cup
  {<<CalcScheme(id, f), UserProfile(a, s)>> :
     id \in CalcIds, f \in ChosenFormulas, a \in CalcAges, s \in CalcSalaries}

\* The longest list handed to calculatePensionsForSchemes directly.
MaxBatch == 3

\* The schemes of a batch: two fixed monthly amounts, a lump-sum-only scheme,
\* a scheme of a designated identifier and one of no rule (both without
\* formula), a formula that is no text, and a comma ahead of the amount.
BatchSchemes ==
  { CalcScheme("APY", Str(<<"RUPEE", "3", ",", "0", "0", "0", " ", "per month">>)),
    CalcScheme("SCSS", Str(<<"RUPEE", "2", ",", "0", "0", "0", " ", "per month">>)),
    CalcScheme("EPF", Str(<<"accumulates", " ", "contributions">>)),
    CalcScheme("APY", Missing),
    CalcScheme("EPF", Missing),
    CalcScheme("EPF", [k |-> "number", v |-> <<>>]),
    CalcScheme("PMKMY", Str(<<"pension", ",", " ", "RUPEE", "3", ",", "0", "0", "0",
                              " ", "per month">>)) }

RECURSIVE ListsOf(_, _)
ListsOf(S, n) ==
  IF n = 0 THEN {<<>>}
  ELSE LET shorter == ListsOf(S, n - 1)
       IN shorter \cup {Append(l, x) : l \in {m \in shorter : Len(m) = n - 1}, x \in S}

BatchAges == {20, 30, 60}

\* Salaries of a batch: none, one whose rounded twelfth is 1, the one at
\* which two fixed amounts of 5,000 a month are 30% of the salary, the next.
BatchSalaries == {0, 12, 200000, 200001, 600000}

BatchInputs ==
  {<<l, UserProfile(a, s)>> :
     l \in ListsOf(BatchSchemes, MaxBatch), a \in BatchAges, s \in BatchSalaries}

CalcInit ==
  /\ \/ /\ pc = "calc"
        /\ \E in \in CalcInputs : calcScheme = in[1] /\ calcProfile = in[2]
        /\ calcBatch = <<>>
     \/ /\ pc = "batch"
        /\ \E in \in BatchInputs : calcBatch = in[1] /\ calcProfile = in[2]
        /\ calcScheme = None
  /\ calcResult = None
  /\ calcInsights = None
  /\ dataset = <<>>
  /\ request = None
  /\ response = None
  /\ core = None
  /\ AuthConstructed("/")

\* A call of calculatePension.
Calculate ==
  /\ pc = "calc"
  /\ calcResult' = calculatePensionCall(calcScheme, calcProfile)
  /\ pc' = "done"
  /\ UNCHANGED <<serverVars, authVars, calcScheme, calcBatch, calcProfile, calcInsights>>

\* A call of calculatePensionsForSchemes.
CalculateBatch ==
  /\ pc = "batch"
  /\ calcResult' = calculatePensionsForSchemes(calcBatch, calcProfile)
  /\ pc' = "batchDone"
  /\ UNCHANGED <<serverVars, authVars, calcScheme, calcBatch, calcProfile, calcInsights>>

\* The call of getPensionInsights that follows a batch that returned, with
\* the age and the annualSalary of the same profile.
Summarise ==
  /\ pc = "batchDone"
  /\ ~calcResult.threw
  /\ calcInsights' = getPensionInsights(calcResult.value,
                        [age |-> calcProfile.age,
                         annualSalary |-> calcProfile.annualSalary])
  /\ pc' = "summarised"
  /\ UNCHANGED <<serverVars, authVars, calcScheme, calcBatch, calcProfile, calcResult>>

CalcNext == Calculate \/ CalculateBatch \/ Summarise

CalcSpec == CalcInit /\ [][CalcNext]_vars

(***************************************************************************)
(* The browser: the provider subscribes to the identity provider, whose    *)
(* callback queues state updates; React renders them, all that are queued  *)
(* at once or (without batching) some of them, and runs Dashboard's effect *)
(* before the next render.                                                 *)
(***************************************************************************)
\* The longest queue of state updates waiting for a render.
MaxUpdates == 4

AuthInit ==
  /\ pc = "auth"
  /\ \E at \in {"/", "/dashboard"} : AuthConstructed(at)
  /\ dataset = <<>>
  /\ request = None
  /\ response = None
  /\ core = None
  /\ calcScheme = None
  /\ calcBatch = <<>>
  /\ calcProfile = None
  /\ calcResult = None
  /\ calcInsights = None

\* The provider's effect: onAuthStateChanged registers the callback.
Subscribe ==
  /\ pc = "auth"
  /\ ~subscribed
  /\ subscribed' = TRUE
  /\ UNCHANGED <<pc, serverVars, calcVars, user, loading, updates, location, view,
                 effectDue, navigating, pushed, callbackFired>>

\* The auth-state callback: setUser(user) or setUser(null), then
\* setLoading(false).
AuthStateChanged ==
  /\ pc = "auth"
  /\ subscribed
  /\ Len(updates) + 2 <= MaxUpdates
  /\ \E reported \in Users \cup {NoUser} :
       updates' = updates \o <<[set |-> "user", to |-> reported],
                               [set |-> "loading", to |-> "false"]>>
  /\ callbackFired' = TRUE
  /\ UNCHANGED <<pc, serverVars, calcVars, user, loading, subscribed, location,
                 view, effectDue, navigating, pushed>>

\* The provider's state after the queued updates ups.
RECURSIVE Applied(_, _)
Applied(state, ups) ==
  IF ups = <<>> THEN state
  ELSE Applied(IF ups[1].set = "user" THEN [state EXCEPT !.user = ups[1].to]
               ELSE [state EXCEPT !.loading = FALSE],
               Tail(ups))

\* The guard without its test of loading.
RedirectsWithoutUser(isLoading, currentUser) == currentUser = NoUser

\* The guard of Dashboard's effect.
ShouldRedirect(isLoading, currentUser) == ~isLoading /\ currentUser = NoUser

\* A render: the first k queued updates become the provider's state, and
\* Dashboard, if mounted, returns its view for it; its effect is due when
\* user or loading changed.
Render ==
  /\ pc = "auth"
  /\ updates # <<>>
  /\ ~effectDue
  /\ \E k \in 1..Len(updates) :
       LET next == Applied([user |-> user, loading |-> loading],
                           SubSeq(updates, 1, k))
       IN /\ user' = next.user
          /\ loading' = next.loading
          /\ updates' = SubSeq(updates, k + 1, Len(updates))
          /\ IF location = "/dashboard"
             THEN /\ view' = DashboardView(next.loading, next.user)
                  /\ effectDue' = (next.user # user \/ next.loading # loading)
             ELSE UNCHANGED <<view, effectDue>>
  /\ UNCHANGED <<pc, serverVars, calcVars, subscribed, location, navigating,
                 pushed, callbackFired>>

\* Dashboard's effect: router.push('/') if not loading and no user.
DashboardEffect ==
  /\ pc = "auth"
  /\ location = "/dashboard"
  /\ effectDue
  /\ effectDue' = FALSE
  /\ IF ShouldRedirect(loading, user)
     THEN /\ pushed' = [by |-> "effect", loading |-> loading, user |-> user]
          /\ navigating' = TRUE
     ELSE UNCHANGED <<pushed, navigating>>
  /\ UNCHANGED <<pc, serverVars, calcVars, user, loading, updates, subscribed,
                 location, view, callbackFired>>

\* A click on "Back to Home", a button of the dashboard body.
BackToHome ==
  /\ pc = "auth"
  /\ location = "/dashboard"
  /\ view = "body"
  /\ pushed' = [by |-> "button", loading |-> loading, user |-> user]
  /\ navigating' = TRUE
  /\ UNCHANGED <<pc, serverVars, calcVars, user, loading, updates, subscribed,
                 location, view, effectDue, callbackFired>>

\* The route changes to '/': Dashboard is unmounted.
RouteChange ==
  /\ pc = "auth"
  /\ navigating
  /\ location' = "/"
  /\ view' = "none"
  /\ effectDue' = FALSE
  /\ navigating' = FALSE
  /\ UNCHANGED <<pc, serverVars, calcVars, user, loading, updates, subscribed,
                 pushed, callbackFired>>

\* The browser opens the dashboard: Dashboard is mounted, renders for the
\* provider's state, and its effect is due.
VisitDashboard ==
  /\ pc = "auth"
  /\ location = "/"
  /\ ~navigating
  /\ location' = "/dashboard"
  /\ view' = DashboardView(loading, user)
  /\ effectDue' = TRUE
  /\ UNCHANGED <<pc, serverVars, calcVars, user, loading, updates, subscribed,
                 navigating, pushed, callbackFired>>

AuthNext ==
  \/ Subscribe \/ AuthStateChanged \/ Render \/ DashboardEffect
  \/ BackToHome \/ RouteChange \/ VisitDashboard

AuthSpec == AuthInit /\ [][AuthNext]_vars

(***************************************************************************)
(* Properties of calculatePension and calculatePensionsForSchemes          *)
(* (specification CalcSpec)                                                *)
(***************************************************************************)
\* A call of calculatePension has returned.
CalcReturned == pc = "done" /\ ~calcResult.threw

\* The formula text the rules are tested on.
CalcFormula ==
  IF calcScheme.pension_formula.k = "string"
  THEN toLowerCase(calcScheme.pension_formula.v) ELSE <<>>

\* C1: for every scheme record and every profile with an age in 0..120 and a
\* salary >= 0, the estimate calculatePension returns has a monthlyPension
\* that is a non-negative number and an annualPension equal to twelve times
\* that monthlyPension; a lump-sum-only estimate has monthlyPension 0.
C1_AnnualIsTwelveTimesMonthly ==
  CalcReturned =>
    LET estimate == calcResult.value
    IN /\ ~IsNaN(estimate.monthlyPension)
       /\ Twice(estimate.monthlyPension) >= 0
       /\ estimate.annualPension = Times(estimate.monthlyPension, 12)
       /\ estimate.type = "epf_accumulation" => estimate.monthlyPension = Num(0)

\* The type of the first rule, in the order of the source, whose condition
\* holds for a formula text and a scheme identifier.
FirstRuleType(formula, scheme_id) ==
  LET rules == << <<IsFixedMonthly(formula), "fixed_monthly">>,
                  <<IsRangeBased(formula), "range_based">>,
                  <<IsEps(formula), "eps_formula">>,
                  <<IsEpf(formula), "epf_accumulation">>,
                  <<IsNps(formula), "nps_market_linked">>,
                  <<scheme_id = "APY", "apy_fixed">>,
                  <<scheme_id = "PM_SYM", "pm_sym">> >>
      matching == {i \in 1..Len(rules) : rules[i][1]}
  IN IF matching = {} THEN "default"
     ELSE rules[CHOOSE i \in matching : \A j \in matching : i <= j][2]

\* C2: a call of calculatePension that returns yields one estimate, whose
\* type is that of the first rule whose condition holds, in the order fixed
\* monthly, range-based, EPS, accumulation, market-linked corpus, designated
\* scheme identifier; the type is default exactly when no rule matches.
C2_FirstMatchingRuleWins ==
  CalcReturned =>
    calcResult.value.type = FirstRuleType(CalcFormula, calcScheme.scheme_id)

\* A text on which the EPS rule, the accumulation rule, the market-linked
\* rule and the identifier rule all match: the estimate is the EPS one.
C2_EpsBeforeLaterRules ==
  /\ CalcReturned
  /\ ~IsFixedMonthly(CalcFormula) /\ ~IsRangeBased(CalcFormula)
  /\ IsEps(CalcFormula) /\ IsEpf(CalcFormula) /\ IsNps(CalcFormula)
  /\ calcScheme.scheme_id = "APY"
  /\ calcResult.value.type = "eps_formula"

\* The first run of digits and commas of a text that holds a digit, with its
\* commas stripped, read as a decimal number; 0 when the text has no digit.
RECURSIVE FirstIntegerLikeFrom(_, _)
FirstIntegerLikeFrom(str, i) ==
  IF i > Len(str) THEN 0
  ELSE IF DigitOrComma(str[i])
    THEN LET j == RunEnd(str, i)
             ds == StripCommas(SubSeq(str, i, j))
         IN IF ds # <<>> THEN DecimalValue(ds)
            ELSE FirstIntegerLikeFrom(str, j + 1)
  ELSE FirstIntegerLikeFrom(str, i + 1)

\* C3: for every formula text with a currency amount and "per month" the
\* estimate is of type fixed_monthly, its monthlyPension is the first
\* integer-like number of the text with the commas stripped, and its
\* annualPension is twelve times that.
C3_FixedMonthlyAmount ==
  (CalcReturned /\ IsFixedMonthly(CalcFormula)
     /\ \E i \in 1..Len(CalcFormula) : CalcFormula[i] \in Digits) =>
    LET amount == FirstIntegerLikeFrom(CalcFormula, 1)
    IN /\ calcResult.value.type = "fixed_monthly"
       /\ calcResult.value.monthlyPension = Num(amount)
       /\ calcResult.value.annualPension = Num(12 * amount)

\* C4: for a formula text with a range RUPEE min ENDASH RUPEE max and "per
\* month" the estimate is range-based; its monthlyPension is min when
\* annualSalary <= 300000, the midpoint when 300000 < annualSalary <= 1000000
\* and max above.
C4_RangeTiers ==
  (CalcReturned /\ extractRange(CalcFormula).found
     /\ includes(CalcFormula, "per month")) =>
    LET range == extractRange(CalcFormula)
        annualSalary == calcProfile.annualSalary
    IN /\ calcResult.value.type = "range_based"
       /\ calcResult.value.monthlyPension =
            IF annualSalary <= 300000 THEN range.min
            ELSE IF annualSalary <= 1000000 THEN Midpoint(range.min, range.max)
            ELSE range.max

\* C5: calculatePensionsForSchemes returns for every list of schemes a list
\* of the same length and order with one estimate attached to each scheme;
\* no exception leaves the call, and a scheme whose formula field is
\* malformed gets the estimate of type error with zero pensions while the
\* others get the estimate calculatePension gives them alone.
C5_BatchNeverThrows ==
  pc = "batchDone" =>
    /\ ~calcResult.threw
    /\ Len(calcResult.value) = Len(calcBatch)
    /\ \A i \in 1..Len(calcBatch) :
         /\ calcResult.value[i].scheme_id = calcBatch[i].scheme_id
         /\ calcResult.value[i].pension_formula = calcBatch[i].pension_formula
         /\ calcResult.value[i].pensionCalculation =
              IF calcBatch[i].pension_formula.k = "number" THEN ErrorEstimate
              ELSE calculatePension(calcBatch[i], calcProfile)

(***************************************************************************)
(* Properties of the two handlers (specification Spec)                     *)
(***************************************************************************)
Responded(handler) == pc = "responded" /\ request.handler = handler

\* The country names of the request, trimmed, the empty ones dropped.
RequestedNames == NormalizedCountries(CountriesParam(request))

\* The record's country is, letter case apart, one of the requested names.
Requested(s) ==
  /\ s.country.k = "string"
  /\ \E k \in 1..Len(RequestedNames) :
       LowerToken(s.country.v) = LowerToken(RequestedNames[k])

RequestAge == parseInt(request.age).n

RequestSalary == parseInt(request.annualSalary).n

\* The record passes the three eligibility checks for the request.
PassesEligibility(s) ==
  /\ AgeEligible(s, RequestAge)
  /\ IncomeEligible(s, RequestSalary)
  /\ SchemeSpecificEligible(s, RequestAge)

Listed(s) ==
  \E k \in 1..Len(response.schemes) : response.schemes[k].scheme_id = s.scheme_id

DatasetRecords == {dataset[i] : i \in 1..Len(dataset)}

\* C6: in a successful response of the pension-schemes handler the scheme
\* list holds exactly the dataset records whose country is requested and
\* that pass the age, income and scheme-specific checks, each once, with
\* the fields the dataset gives them, and totalSchemes is the list's length.
C6_ExactlyTheEligible ==
  (Responded("pension-schemes") /\ response.status = 200) =>
    LET expected == {s \in DatasetRecords : Requested(s) /\ PassesEligibility(s)}
    IN /\ \A s \in expected : Listed(s)
       /\ \A k \in 1..Len(response.schemes) :
            \E s \in expected :
              \A f \in DOMAIN s : response.schemes[k][f] = s[f]
       /\ Len(response.schemes) = Cardinality(expected)
       /\ response.totalSchemes = Len(response.schemes)

\* A successful response that lists a record and leaves out a record of a
\* requested country that fails a check.
C6_SomeListedSomeFiltered ==
  /\ Responded("pension-schemes") /\ response.status = 200
  /\ response.schemes # <<>>
  /\ \E s \in DatasetRecords : Requested(s) /\ ~PassesEligibility(s) /\ ~Listed(s)
  /\ \E s \in DatasetRecords : Requested(s) /\ ~IncomeEligible(s, RequestSalary)

\* C7: the country filter keeps a record iff its country equals, letter case
\* apart and as a whole string, a requested name: every response with a
\* scheme list lists only such records (the allroutes handler all of them),
\* the calculator is called with such records only, and a 404 is answered
\* only when the dataset has no such record.
C7_OnlyRequestedCountries ==
  pc = "responded" =>
    /\ "schemes" \in DOMAIN response =>
         /\ \A k \in 1..Len(response.schemes) :
              \E s \in DatasetRecords :
                s.scheme_id = response.schemes[k].scheme_id /\ Requested(s)
         /\ request.handler = "allroutes" =>
              \A s \in DatasetRecords : Requested(s) => Listed(s)
    /\ core # None =>
         \A k \in 1..Len(core.schemes) :
           \E s \in DatasetRecords :
             s.scheme_id = core.schemes[k].scheme_id /\ Requested(s)
    /\ response.status = 404 => \A s \in DatasetRecords : ~Requested(s)

\* A response lists a record whose country is written in another letter case
\* than the requested name, and leaves out a record of another country.
C7_CaseDiffersAndOtherCountryOut ==
  /\ pc = "responded" /\ "schemes" \in DOMAIN response
  /\ \E s \in DatasetRecords :
       /\ Listed(s)
       /\ \A k \in 1..Len(RequestedNames) : s.country.v # RequestedNames[k]
  /\ \E s \in DatasetRecords : s.country.k = "string" /\ ~Requested(s) /\ ~Listed(s)

\* The request passed the validation of the pension-schemes handler.
PassedValidation == Responded("pension-schemes") /\ response.status # 400

NoCountryMatch == \A s \in DatasetRecords : ~Requested(s)

NoneEligible ==
  /\ ~NoCountryMatch
  /\ \A s \in DatasetRecords : Requested(s) => ~PassesEligibility(s)

\* C8 (as the code has it): the two empty-result conditions get answers the
\* caller can tell apart, neither a 500: no record of the requested
\* countries is answered 404 without success; records of the requested
\* countries none of which passes the eligibility filter are answered with
\* a success response whose scheme list is empty and whose totalSchemes is 0.
C8_EmptyResultsTellApart ==
  PassedValidation =>
    /\ NoCountryMatch => response.status = 404 /\ ~response.success
    /\ NoneEligible =>
         /\ response.status = 200 /\ response.success
         /\ response.schemes = <<>> /\ response.totalSchemes = 0

\* Records of the requested countries, none eligible: a success, empty list.
C8_NoneEligibleAnswered ==
  PassedValidation /\ NoneEligible /\ response.status = 200
    /\ response.schemes = <<>>

\* C8 (as stated): both empty-result conditions are answered with not-found
\* outcomes that differ, the second one neither a success nor a 500.
C8_BothNotFound ==
  PassedValidation =>
    /\ NoCountryMatch => response.status = 404 /\ ~response.success
    /\ NoneEligible =>
         /\ ~response.success /\ response.status \notin {200, 500}
         /\ response.message # "No schemes found for the requested countries"

\* C9: no handler calls the calculator with an age outside 0..120 or with a
\* negative annualSalary.
C9_CoreGetsValidatedInput ==
  (pc = "responded" /\ core # None) =>
    /\ core.userProfile.age \in 0..120
    /\ core.userProfile.annualSalary >= 0

\* C10: a request to the pension-schemes handler with an integer age in
\* 0..120, an annualSalary >= 0 and a non-empty country selection is never
\* answered with a 400.
C10_ValidRequestPasses ==
  (/\ Responded("pension-schemes")
   /\ \E n \in 0..120 : request.age = NumberParam(n)
   /\ \E n \in RequestSalaries : n >= 0 /\ request.annualSalary = NumberParam(n)
   /\ RequestedNames # <<>>) =>
    response.status # 400

\* The place in the dataset of the record with this identifier.
DatasetIndex(scheme_id) ==
  CHOOSE i \in 1..Len(dataset) : dataset[i].scheme_id = scheme_id

\* C11: the scheme list of a successful response of the pension-schemes
\* handler is in non-increasing order of relevanceScore, two schemes of equal
\* score stand in the order the dataset has them, and the list with the
\* estimates attached is in the order of the sorted list handed to the
\* calculator.
C11_SortedAndStable ==
  (Responded("pension-schemes") /\ response.status = 200) =>
    LET list == response.schemes
    IN /\ \A k, l \in 1..Len(list) :
            k < l =>
              /\ list[k].relevanceScore >= list[l].relevanceScore
              /\ list[k].relevanceScore = list[l].relevanceScore =>
                   DatasetIndex(list[k].scheme_id) < DatasetIndex(list[l].scheme_id)
       /\ Len(list) = Len(core.schemes)
       /\ \A k \in 1..Len(list) : list[k].scheme_id = core.schemes[k].scheme_id

\* A list in which a record moved ahead of an earlier one of the dataset,
\* and two records of equal score kept their order.
C11_ReorderedWithTie ==
  /\ Responded("pension-schemes") /\ response.status = 200
  /\ \E k, l \in 1..Len(response.schemes) :
       /\ k < l
       /\ DatasetIndex(response.schemes[k].scheme_id)
            > DatasetIndex(response.schemes[l].scheme_id)
  /\ \E k, l \in 1..Len(response.schemes) :
       /\ k < l
       /\ response.schemes[k].relevanceScore = response.schemes[l].relevanceScore

(***************************************************************************)
(* Properties of getPensionInsights (specification CalcSpec)               *)
(***************************************************************************)
\* The schemes of the summarised list whose estimate has monthlyPension > 0.
Contributing ==
  {i \in 1..Len(calcResult.value) :
     Greater(calcResult.value[i].pensionCalculation.monthlyPension, 0)}

\* The sum of a field of the estimates at the places in `places`.
RECURSIVE SumAt(_, _)
SumAt(places, field) ==
  IF places = {} THEN 0
  ELSE LET i == CHOOSE j \in places : TRUE
       IN calcResult.value[i].pensionCalculation[field].n + SumAt(places \ {i}, field)

\* C12: getPensionInsights sets totalMonthlyPension to the sum of
\* monthlyPension, and totalAnnualPension to the sum of annualPension, over
\* exactly the schemes whose estimate has monthlyPension > 0.
C12_TotalsOverPositiveMonthly ==
  pc = "summarised" =>
    /\ calcInsights.totalMonthlyPension = Num(SumAt(Contributing, "monthlyPension"))
    /\ calcInsights.totalAnnualPension = Num(SumAt(Contributing, "annualPension"))

\* Monthly pensions of 2000 and 3000 and a lump-sum-only scheme: 5000.
C12_TwoPensionsAndLumpSum ==
  /\ pc = "summarised"
  /\ Len(calcResult.value) = 3
  /\ \E i, j, k \in 1..3 :
       /\ calcResult.value[i].pensionCalculation.monthlyPension = Num(2000)
       /\ calcResult.value[j].pensionCalculation.monthlyPension = Num(3000)
       /\ calcResult.value[k].pensionCalculation.type = "epf_accumulation"
       /\ calcResult.value[k].pensionCalculation.lumpSumCorpus > 0
  /\ calcInsights.totalMonthlyPension = Num(5000)

ReplacementRatioWarning ==
  "Your pension replacement ratio is low. Consider additional savings."

Warned(insights, warning) ==
  \E k \in 1..Len(insights.warnings) : insights.warnings[k] = warning

\* C13: getPensionInsights adds the low-replacement-ratio warning exactly
\* when totalAnnualPension / annualSalary < 0.30 (ten times the total is
\* less than three times the salary); with annualSalary = 0 it returns, adds
\* no such warning, and its totals are numbers.
C13_ReplacementRatioWarning ==
  pc = "summarised" =>
    LET total == calcInsights.totalAnnualPension
        annualSalary == calcProfile.annualSalary
    IN /\ ~IsNaN(total) /\ ~IsNaN(calcInsights.totalMonthlyPension)
       /\ Warned(calcInsights, ReplacementRatioWarning) <=>
            (annualSalary > 0 /\ 10 * total.n < 3 * annualSalary)
       /\ annualSalary = 0 => ~Warned(calcInsights, ReplacementRatioWarning)

\* A summary for a salary of 0 with a pension to report: no warning about
\* the replacement ratio.
C13_ZeroSalaryNoWarning ==
  /\ pc = "summarised"
  /\ calcProfile.annualSalary = 0
  /\ Greater(calcInsights.totalAnnualPension, 0)
  /\ ~Warned(calcInsights, ReplacementRatioWarning)

(***************************************************************************)
(* More properties of the two handlers (specification Spec)                *)
(***************************************************************************)
\* The response of the request's handler for the dataset d.
ResponseFor(req, d) ==
  IF req.handler = "allroutes" THEN AllRoutesGET(req, d).response
  ELSE PensionSchemesGET(req, d).response

\* The fields a record of the dataset has.
RecordFields ==
  {"scheme_id", "country", "sector", "eligibility_age_min", "eligibility_age_max",
   "income_criteria", "pension_formula"}

WithEstimates ==
  /\ pc = "responded" /\ response.status = 200
  /\ "pensionInsights" \in DOMAIN response

\* The dataset record a listed scheme is a copy of.
RecordOf(scheme) == dataset[DatasetIndex(scheme.scheme_id)]

Scored(scheme) ==
  "relevanceScore" \in DOMAIN scheme /\ "recommendation" \in DOMAIN scheme

ClaimedYearsOfService(age) == Min(Max(0, 60 - age), 40)

\* C16: for a formula text with "pensionable salary" and "pensionable
\* service" that matches no earlier rule the estimate is the EPS one, with
\* monthlyPension = round(min(monthly salary, 15000) x yearsOfService x
\* 0.00833), yearsOfService = min(max(0, 60 - age), 40), the monthly salary
\* being the profile's monthlySalary or, when that is 0, annualSalary / 12.
C16_EpsFormula ==
  (CalcReturned /\ IsEps(CalcFormula)
     /\ ~IsFixedMonthly(CalcFormula) /\ ~IsRangeBased(CalcFormula)) =>
    LET yearsOfService == ClaimedYearsOfService(calcProfile.age)
        monthly == calcProfile.monthlySalary
        \* the monthly salary is salary / parts
        salary == IF monthly # 0 THEN monthly ELSE calcProfile.annualSalary
        parts == IF monthly # 0 THEN 1 ELSE 12
        pensionable == Min(salary, 15000 * parts)
    IN /\ calcResult.value.type = "eps_formula"
       /\ calcResult.value.monthlyPension =
            Num(Round(pensionable * yearsOfService * 833, parts * 100000))

\* Monthly salary 20000, age 30: pensionable salary 15000, 30 years,
\* round(15000 x 30 x 0.00833) = round(3748.5) = 3749.
C16_CappedThirtyYears ==
  /\ CalcReturned /\ calcResult.value.type = "eps_formula"
  /\ calcProfile.monthlySalary = 20000 /\ calcProfile.age = 30
  /\ calcResult.value.monthlyPension = Num(3749)

\* The estimate's pensions and corpus fields are all 0.
AllZero(estimate) ==
  /\ estimate.monthlyPension = Num(0)
  /\ estimate.annualPension = Num(0)
  /\ \A f \in DOMAIN estimate \cap {"lumpSumCorpus", "annuityCorpus", "corpus"} :
       estimate[f] = 0

AccumulationTypes == {"epf_accumulation", "nps_market_linked", "apy_fixed", "pm_sym"}

\* The estimate of each accumulation type for yearsOfService years of a
\* monthly salary, by the code's formulas.
AccumulationEstimates(monthlySalary, yearsOfService) ==
  { EpfEstimate(monthlySalary, 1, yearsOfService),
    NpsEstimate(monthlySalary, 1, yearsOfService),
    FixedContributionEstimate("apy_fixed", 100, 50, yearsOfService),
    FixedContributionEstimate("pm_sym", 100, 100, yearsOfService) }

\* C17 (as the code has it): yearsOfService = min(max(0, 60 - age), 40) lies
\* in 0..40 for every age in 0..120; a call with a formula that is a text or
\* absent returns; for an age >= 60 every accumulation estimate (defined
\* contribution, market-linked, fixed contribution) has corpus and pensions
\* 0; for a salary of 0 the estimates computed from the salary (EPS, defined
\* contribution, market-linked, default) are all 0, while a
\* fixed-contribution estimate is the one of any other salary.
C17_ZeroYearsZeroSalary ==
  pc = "done" =>
       /\ ClaimedYearsOfService(calcProfile.age) \in 0..40
       /\ calcProfile.age >= 60 => ClaimedYearsOfService(calcProfile.age) = 0
       /\ calcScheme.pension_formula.k \in {"string", "undefined", "null"} =>
            ~calcResult.threw
       /\ (~calcResult.threw /\ calcProfile.age >= 60
             /\ calcResult.value.type \in AccumulationTypes) =>
            AllZero(calcResult.value)
       /\ (~calcResult.threw /\ calcProfile.annualSalary = 0
             /\ calcResult.value.type \in
                  {"eps_formula", "epf_accumulation", "nps_market_linked", "default"}) =>
            AllZero(calcResult.value)
       /\ (~calcResult.threw /\ calcResult.value.type \in {"apy_fixed", "pm_sym"}) =>
            calcResult.value \in
              AccumulationEstimates(50000, ClaimedYearsOfService(calcProfile.age))

\* A fixed-contribution estimate for the age 60: corpus and pensions 0.
C17_NoYearsNoCorpus ==
  /\ CalcReturned /\ calcProfile.age >= 60 /\ calcProfile.annualSalary > 0
  /\ calcResult.value.type = "apy_fixed"
  /\ calcResult.value.corpus = 0
  /\ AllZero(calcResult.value)

\* C17 (as stated): for an age >= 60, and likewise for a salary of 0, every
\* accumulation estimate has corpus and pensions 0.
C17_ZeroSalaryZeroEverywhere ==
  (CalcReturned /\ calcResult.value.type \in AccumulationTypes
     /\ (calcProfile.age >= 60 \/ calcProfile.annualSalary = 0)) =>
    AllZero(calcResult.value)

\* C18: extracting the number of a formula text never yields a value that
\* is no number: extractNumber is 0 for a text from which no integer can be
\* read (no digit, or no digit in the first run of digits and commas), and a
\* fixed-monthly estimate built from such a text has pensions 0.
C18_ExtractNumberIsANumber ==
  pc = "done" =>
    LET unreadable ==
          \/ \A i \in 1..Len(CalcFormula) : CalcFormula[i] \notin Digits
          \/ \E i \in 1..Len(CalcFormula) :
               /\ CalcFormula[i] = ","
               /\ \A j \in 1..(i - 1) : ~DigitOrComma(CalcFormula[j])
               /\ StripCommas(SubSeq(CalcFormula, i, RunEnd(CalcFormula, i))) = <<>>
    IN /\ ~IsNaN(extractNumber(CalcFormula))
       /\ unreadable => extractNumber(CalcFormula) = Num(0)
       /\ (CalcReturned /\ calcResult.value.type = "fixed_monthly" /\ unreadable) =>
            /\ calcResult.value.monthlyPension = Num(0)
            /\ calcResult.value.annualPension = Num(0)

(***************************************************************************)
(* Properties of the eligibility filter (specification Spec)               *)
(***************************************************************************)
\* The lower-cased income-criteria text of a record.
IncomeCriteria(s) ==
  IF s.income_criteria.k = "string" THEN toLowerCase(s.income_criteria.v) ELSE <<>>

BplMarker(s) ==
  includes(IncomeCriteria(s), "bpl") \/ includes(IncomeCriteria(s), "below poverty line")

CapMarker(s) ==
  includes(IncomeCriteria(s), "income cap") \/ includes(IncomeCriteria(s), "threshold")

\* C19: a scheme whose income-criteria text has both a BPL marker and a cap
\* marker is income-eligible iff annualSalary <= 300000: of the records of a
\* requested country that pass the age checks, the pension-schemes handler
\* lists such a scheme exactly for these salaries.
C19_StricterIncomeBoundWins ==
  (Responded("pension-schemes") /\ response.status = 200) =>
    \A s \in DatasetRecords :
      (/\ BplMarker(s) /\ CapMarker(s)
       /\ Requested(s)
       /\ AgeEligible(s, RequestAge) /\ SchemeSpecificEligible(s, RequestAge)) =>
        /\ IncomeEligible(s, RequestSalary) <=> RequestSalary <= 300000
        /\ Listed(s) <=> RequestSalary <= 300000

\* The identifiers with a hard-coded age window, and the windows.
OverrideIds ==
  {"NPS_Tier_I", "APY", "PM_SYM", "PMKMY", "PM_LVM", "NSAP_IGNOAPS", "SCSS", "PMVVY"}

InWindow(scheme_id, age) ==
  IF scheme_id = "NPS_Tier_I" THEN age \in 18..70
  ELSE IF scheme_id \in {"APY", "PM_SYM", "PMKMY", "PM_LVM"} THEN age \in 18..40
  ELSE IF scheme_id \in {"NSAP_IGNOAPS", "SCSS", "PMVVY"} THEN age >= 60
  ELSE TRUE

\* The record's own bounds admit the age.
WithinOwnBounds(s, age) ==
  /\ s.eligibility_age_min.k = "number" => age >= s.eligibility_age_min.v
  /\ s.eligibility_age_max.k = "number" => age <= s.eligibility_age_max.v

\* The records the age checks decide about: of a requested country and
\* income-eligible.
AgeDecides(s) == Requested(s) /\ IncomeEligible(s, RequestSalary)

\* C20 (as the code has it): a scheme whose identifier is in the override
\* set is admitted iff the age lies in the hard-coded window AND within the
\* record's own minAge/maxAge; for every other identifier the record's own
\* bounds alone decide.
C20_WindowAndOwnBounds ==
  (Responded("pension-schemes") /\ response.status = 200) =>
    \A s \in DatasetRecords :
      AgeDecides(s) =>
        (Listed(s) <=>
           /\ WithinOwnBounds(s, RequestAge)
           /\ s.scheme_id \in OverrideIds => InWindow(s.scheme_id, RequestAge))

\* The age is in the window of a scheme of the override set and beyond the
\* record's own maxAge: the scheme is not listed.
C20_InWindowBeyondOwnBound ==
  /\ Responded("pension-schemes") /\ response.status = 200
  /\ \E s \in DatasetRecords :
       /\ AgeDecides(s) /\ s.scheme_id \in OverrideIds
       /\ InWindow(s.scheme_id, RequestAge)
       /\ ~WithinOwnBounds(s, RequestAge)
       /\ ~Listed(s)

\* C20 (as stated): for a scheme of the override set the hard-coded window
\* alone decides, whatever the record's own minAge and maxAge.
C20_WindowAlone ==
  (Responded("pension-schemes") /\ response.status = 200) =>
    \A s \in DatasetRecords :
      AgeDecides(s) =>
        /\ s.scheme_id \in OverrideIds =>
             (Listed(s) <=> InWindow(s.scheme_id, RequestAge))
        /\ s.scheme_id \notin OverrideIds =>
             (Listed(s) <=> WithinOwnBounds(s, RequestAge))

\* A bound that is undefined, null or the empty string.
AbsentBound(bound) == bound.k \in {"undefined", "null", "empty"}

\* C21: a record is age-eligible iff (minAge absent or age >= minAge) and
\* (maxAge absent or age <= maxAge), absent being undefined, null or empty:
\* among the records the other checks admit the handler lists exactly
\* these, and it lists no record whose own bounds exclude the age.
C21_GenericAgeCheck ==
  (Responded("pension-schemes") /\ response.status = 200) =>
    \A s \in DatasetRecords :
      LET claimed ==
            /\ AbsentBound(s.eligibility_age_min) \/ RequestAge >= s.eligibility_age_min.v
            /\ AbsentBound(s.eligibility_age_max) \/ RequestAge <= s.eligibility_age_max.v
      IN /\ AgeEligible(s, RequestAge) <=> claimed
         /\ ~claimed => ~Listed(s)
         /\ (AgeDecides(s) /\ SchemeSpecificEligible(s, RequestAge)) =>
              (Listed(s) <=> claimed)

\* Age 45: a record with minAge 18 and maxAge 40 is left out, one without
\* bounds is listed.
C21_FortyFiveOutOfEighteenToForty ==
  /\ Responded("pension-schemes") /\ response.status = 200
  /\ RequestAge = 45
  /\ \E s \in DatasetRecords :
       /\ Requested(s) /\ ~Listed(s)
       /\ s.eligibility_age_min.k = "number" /\ s.eligibility_age_min.v = 18
       /\ s.eligibility_age_max.k = "number" /\ s.eligibility_age_max.v = 40
  /\ \E s \in DatasetRecords :
       /\ Listed(s)
       /\ AbsentBound(s.eligibility_age_min) /\ AbsentBound(s.eligibility_age_max)

\* C22: with only a BPL marker in the income-criteria text a scheme is
\* income-eligible iff annualSalary <= 300000, with only a cap marker iff
\* annualSalary <= 500000, with neither (or without the field) for every
\* salary: among the records the other checks admit the handler lists
\* exactly these.
C22_SingleMarkerIncomeCheck ==
  (Responded("pension-schemes") /\ response.status = 200) =>
    \A s \in DatasetRecords :
      ~(BplMarker(s) /\ CapMarker(s)) =>
        LET claimed == IF BplMarker(s) THEN RequestSalary <= 300000
                       ELSE IF CapMarker(s) THEN RequestSalary <= 500000
                       ELSE TRUE
        IN /\ IncomeEligible(s, RequestSalary) <=> claimed
           /\ (/\ Requested(s) /\ AgeEligible(s, RequestAge)
               /\ SchemeSpecificEligible(s, RequestAge)) =>
                (Listed(s) <=> claimed)

\* A salary between the two bounds: a scheme with only the cap marker is
\* listed, one with only the BPL marker would not be.
C22_BetweenTheBounds ==
  /\ Responded("pension-schemes") /\ response.status = 200
  /\ RequestSalary > 300000 /\ RequestSalary <= 500000
  /\ \E s \in DatasetRecords : CapMarker(s) /\ ~BplMarker(s) /\ Listed(s)

(***************************************************************************)
(* Properties of the relevance scoring (specification Spec)                *)
(***************************************************************************)
\* The allow-list of the one age bracket that holds the age.
AgeAllowList(age) ==
  IF age \in 18..40 THEN {"APY", "PM_SYM", "PMKMY", "PM_LVM", "NPS_Tier_I"}
  ELSE IF age \in 41..59 THEN {"NPS_Tier_I", "EPF", "EPS"}
  ELSE IF age >= 60 THEN {"NSAP_IGNOAPS", "SCSS", "PMVVY"}
  ELSE {}

\* The allow-list of the one income bracket that holds the salary.
IncomeAllowList(annualSalary) ==
  IF annualSalary <= 300000 THEN {"APY", "PM_SYM", "PMKMY", "PM_LVM", "NSAP_IGNOAPS"}
  ELSE IF annualSalary <= 1000000 THEN {"NPS_Tier_I", "EPF", "EPS"}
  ELSE {"NPS_Tier_I", "SCSS", "PMVVY"}

Bonus(granted, points) == IF granted THEN points ELSE 0

\* C23: the relevanceScore of a listed scheme is 3 if its identifier is on
\* the allow-list of the age bracket of the age, plus 2 if it is on the
\* allow-list of the income bracket of the salary, plus 1 if its sector is
\* "All": an integer in 0..6, without the 3 for an age below 18.
C23_ScoreIsAdditive ==
  (Responded("pension-schemes") /\ response.status = 200) =>
    \A k \in 1..Len(response.schemes) :
      LET scheme == response.schemes[k]
      IN /\ scheme.relevanceScore =
              Bonus(scheme.scheme_id \in AgeAllowList(RequestAge), 3)
                + Bonus(scheme.scheme_id \in IncomeAllowList(RequestSalary), 2)
                + Bonus(scheme.sector = "All", 1)
         /\ scheme.relevanceScore \in 0..6
         /\ RequestAge < 18 => scheme.relevanceScore <= 3

\* A scheme with all three bonuses beside one without the sector bonus.
C23_AllThreeBonuses ==
  /\ Responded("pension-schemes") /\ response.status = 200
  /\ \E k, l \in 1..Len(response.schemes) :
       /\ response.schemes[k].relevanceScore = 6
       /\ response.schemes[l].sector # "All"
       /\ response.schemes[l].relevanceScore < 6

AgeBracketRecommendations ==
  {"Excellent for long-term retirement planning",
   "Good for mid-career retirement planning",
   "Suitable for immediate pension benefits"}

\* The recommendation of the age bracket that holds the age.
BracketRecommendation(age) ==
  IF age \in 18..40 THEN "Excellent for long-term retirement planning"
  ELSE IF age \in 41..59 THEN "Good for mid-career retirement planning"
  ELSE "Suitable for immediate pension benefits"

\* C24: the recommendation of a listed scheme is the string of the age
\* bracket exactly when that bracket granted the scheme its bonus of 3, and
\* "Consider based on your specific needs" otherwise (an age below 18, an
\* identifier off the allow-list); it is never empty.
C24_RecommendationFollowsAgeBonus ==
  (Responded("pension-schemes") /\ response.status = 200) =>
    \A k \in 1..Len(response.schemes) :
      LET scheme == response.schemes[k]
          granted == scheme.scheme_id \in AgeAllowList(RequestAge)
      IN /\ scheme.recommendation # ""
         /\ granted => scheme.recommendation = BracketRecommendation(RequestAge)
         /\ ~granted => scheme.recommendation = "Consider based on your specific needs"

\* One response with a bracket's recommendation and with the default.
C24_BracketAndDefault ==
  /\ Responded("pension-schemes") /\ response.status = 200
  /\ \E k, l \in 1..Len(response.schemes) :
       /\ response.schemes[k].recommendation \in AgeBracketRecommendations
       /\ response.schemes[l].recommendation = "Consider based on your specific needs"

(***************************************************************************)
(* Properties of the accumulation estimates (specification CalcSpec)       *)
(***************************************************************************)
\* The sum over the next `years` years of the powers of rn/rd that follow
\* `factor`, all in units of 1/PowScale.
RECURSIVE CompoundedFrom(_, _, _, _)
CompoundedFrom(rn, rd, years, factor) ==
  IF years = 0 THEN 0
  ELSE LET next == Round(factor * rn, rd)
       IN next + CompoundedFrom(rn, rd, years - 1, next)

\* The sum over year = 1..years of (rn/rd)^year, in units of 1/PowScale.
Compounded(rn, rd, years) == CompoundedFrom(rn, rd, years, PowScale)

\* The monthly salary of the profile of the call is SalaryOver / SalaryParts.
SalaryOver ==
  IF calcProfile.monthlySalary # 0 THEN calcProfile.monthlySalary
  ELSE calcProfile.annualSalary

SalaryParts == IF calcProfile.monthlySalary # 0 THEN 1 ELSE 12

\* C25: for a formula text with "accumulates" and "contributions" that
\* matches no earlier rule the estimate has monthlyPension 0, annualPension 0
\* and lumpSumCorpus = round(sum over y = 1..yearsOfService of (0.12 + 0.12)
\* x monthly salary x 12 x 1.085^y); the corpus of a profile with at least
\* as many years of service and at least as high a salary is at least as
\* large.
C25_DefinedContributionCorpus ==
  (CalcReturned /\ IsEpf(CalcFormula) /\ ~IsFixedMonthly(CalcFormula)
     /\ ~IsRangeBased(CalcFormula) /\ ~IsEps(CalcFormula)) =>
    LET estimate == calcResult.value
        years == ClaimedYearsOfService(calcProfile.age)
    IN /\ estimate.type = "epf_accumulation"
       /\ estimate.monthlyPension = Num(0)
       /\ estimate.annualPension = Num(0)
       \* 0.24 x 12 / PowScale = 9 / 31250
       /\ estimate.lumpSumCorpus =
            RoundMulDiv(SalaryOver * 9, Compounded(217, 200, years),
                        SalaryParts * 31250)
       /\ \A age \in CalcAges, annualSalary \in CalcSalaries :
            (ClaimedYearsOfService(age) >= years
               /\ annualSalary >= calcProfile.annualSalary) =>
              calculatePension(calcScheme, UserProfile(age, annualSalary)).lumpSumCorpus
                >= estimate.lumpSumCorpus

\* Forty years of a salary of 100000 a month: a corpus and no pension.
C25_FortyYearsOfContributions ==
  /\ CalcReturned /\ calcResult.value.type = "epf_accumulation"
  /\ calcProfile.age = 20 /\ calcProfile.monthlySalary = 100000
  /\ calcResult.value.lumpSumCorpus > 40 * 24000 * 12
  /\ calcResult.value.monthlyPension = Num(0)

\* C26: for a formula text with "market" and "corpus" that matches no
\* earlier rule the corpus compounded year by year from 10% + 10% of the
\* monthly salary at 10% is split in 60% lump sum and 40% annuity:
\* lumpSumCorpus + annuityCorpus is the corpus up to the rounding of each
\* part, and monthlyPension = round(annuity part x 0.06 / 12).
C26_MarketLinkedSplit ==
  (CalcReturned /\ IsNps(CalcFormula) /\ ~IsFixedMonthly(CalcFormula)
     /\ ~IsRangeBased(CalcFormula) /\ ~IsEps(CalcFormula) /\ ~IsEpf(CalcFormula)) =>
    LET estimate == calcResult.value
        years == ClaimedYearsOfService(calcProfile.age)
        \* 0.20 x 12 / PowScale = 3 / 12500
        corpus == RoundMulDiv(SalaryOver * 3, Compounded(11, 10, years),
                              SalaryParts * 12500)
    IN /\ estimate.type = "nps_market_linked"
       \* 60% and 40% are 3/5 and 2/5
       /\ estimate.lumpSumCorpus = Round(corpus * 3, 5)
       /\ estimate.annuityCorpus = Round(corpus * 2, 5)
       /\ estimate.lumpSumCorpus + estimate.annuityCorpus \in (corpus - 1)..(corpus + 1)
       \* corpus x 0.4 x 0.06 / 12 = corpus x 24 / 12000
       /\ estimate.monthlyPension = Num(Round(corpus * 2, 1000))

\* Thirty years of a salary of 50000 a month: a lump sum, a smaller annuity
\* corpus and a pension paid from it.
C26_ThirtyYearsSplit ==
  /\ CalcReturned /\ calcResult.value.type = "nps_market_linked"
  /\ calcProfile.age = 30 /\ calcProfile.monthlySalary = 50000
  /\ calcResult.value.lumpSumCorpus > calcResult.value.annuityCorpus
  /\ calcResult.value.annuityCorpus > 0
  /\ Greater(calcResult.value.monthlyPension, 0)

\* One of the five rules on the formula text matches.
TextRuleMatches(formula) ==
  \/ IsFixedMonthly(formula) \/ IsRangeBased(formula) \/ IsEps(formula)
  \/ IsEpf(formula) \/ IsNps(formula)

\* The fixed-contribution accumulation the claim describes for a scheme
\* identifier: 100 + 50 a month for APY, 100 + 100 for PM_SYM, at 8%.
ClaimedFixedContribution(scheme_id, years) ==
  LET contributions == IF scheme_id = "APY" THEN 100 + 50 ELSE 100 + 100
      corpus == RoundMulDiv(contributions * 12, Compounded(27, 25, years), PowScale)
  IN [type |-> IF scheme_id = "APY" THEN "apy_fixed" ELSE "pm_sym",
      corpus |-> corpus,
      \* corpus x 0.06 / 12
      monthlyPension |-> Num(Round(corpus * 6, 100 * 12))]

\* C27 (as the code has it): for a scheme whose identifier is APY or PM_SYM
\* and whose formula text matches none of the five text rules the estimate
\* is the fixed-contribution accumulation: corpus = sum over y =
\* 1..yearsOfService of (self-contribution + government co-contribution) x
\* 12 x 1.08^y, monthlyPension = round(corpus x 0.06 / 12), the same for
\* every salary; when a text rule matches, the estimate is that rule's.
C27_DesignatedIdsAfterTextRules ==
  (CalcReturned /\ calcScheme.scheme_id \in {"APY", "PM_SYM"}) =>
    LET estimate == calcResult.value
        claimed == ClaimedFixedContribution(calcScheme.scheme_id,
                                            ClaimedYearsOfService(calcProfile.age))
    IN IF TextRuleMatches(CalcFormula)
       THEN estimate.type \notin {"apy_fixed", "pm_sym"}
       ELSE /\ estimate.type = claimed.type
            /\ estimate.corpus = claimed.corpus
            /\ estimate.monthlyPension = claimed.monthlyPension
            /\ \A annualSalary \in CalcSalaries :
                 calculatePension(calcScheme,
                                  UserProfile(calcProfile.age, annualSalary)) = estimate

\* APY without a formula, thirty years, no salary: a corpus and a pension.
C27_ThirtyYearsWithoutSalary ==
  /\ CalcReturned /\ calcScheme.scheme_id = "APY"
  /\ calcProfile.age = 30 /\ calcProfile.annualSalary = 0
  /\ calcResult.value.type = "apy_fixed"
  /\ calcResult.value.corpus > 30 * 150 * 12
  /\ Greater(calcResult.value.monthlyPension, 0)

\* C27 (as stated): for a scheme whose identifier is APY or PM_SYM the
\* estimate is the fixed-contribution accumulation, whatever its formula.
C27_DesignatedIdsAlwaysAccumulate ==
  (CalcReturned /\ calcScheme.scheme_id \in {"APY", "PM_SYM"}) =>
    LET estimate == calcResult.value
        claimed == ClaimedFixedContribution(calcScheme.scheme_id,
                                            ClaimedYearsOfService(calcProfile.age))
    IN /\ estimate.type = claimed.type
       /\ estimate.corpus = claimed.corpus
       /\ estimate.monthlyPension = claimed.monthlyPension

(***************************************************************************)
(* Properties of the tips and warnings of getPensionInsights               *)
(* (specification CalcSpec)                                                *)
(***************************************************************************)
\* The conditions getPensionInsights evaluates for a profile, each with the
\* tip and the identifiers it stands for, in the order of the source.
TipConditions(age, annualSalary) ==
  << [holds |-> age < 30,
      tip |-> "Start early! Consider NPS for long-term wealth creation",
      ids |-> <<"NPS_Tier_I">>],
     [holds |-> age >= 18 /\ age <= 40,
      tip |-> "APY and PM-SYM are excellent for unorganized sector workers",
      ids |-> <<"APY", "PM_SYM">>],
     [holds |-> annualSalary <= 300000,
      tip |-> "Consider government schemes like PMKMY and PM-LVM for low-income groups",
      ids |-> <<"PMKMY", "PM_LVM">>],
     [holds |-> age >= 60,
      tip |-> "Focus on immediate pension schemes like SCSS and PMVVY",
      ids |-> <<"SCSS", "PMVVY">>] >>

\* The tips, and the identifiers, of the first n conditions that hold.
RECURSIVE TipsOf(_, _)
TipsOf(conditions, n) ==
  IF n = 0 THEN <<>>
  ELSE TipsOf(conditions, n - 1)
         \o (IF conditions[n].holds THEN <<conditions[n].tip>> ELSE <<>>)

RECURSIVE IdsOf(_, _)
IdsOf(conditions, n) ==
  IF n = 0 THEN <<>>
  ELSE IdsOf(conditions, n - 1)
         \o (IF conditions[n].holds THEN conditions[n].ids ELSE <<>>)

\* The summarised batch with every record moved to a country.
BatchInCountry(country) ==
  [i \in 1..Len(calcResult.value) |->
     [calcResult.value[i] EXCEPT !.country = Str(country)]]

\* C28 (as the code has it): tips and recommended scheme identifiers are
\* appended, never replaced, by four independently evaluated conditions on
\* age and income (age < 30, 18 <= age <= 40, annualSalary <= 300000,
\* age >= 60): each condition that holds adds its tip and its identifiers,
\* one that does not hold adds nothing, and the number of tips is the number
\* of conditions that hold; no condition looks at a country, so the summary
\* of the same batch in another country is the same summary.
C28_TipsByAgeAndIncome ==
  pc = "summarised" =>
    LET conditions == TipConditions(calcProfile.age, calcProfile.annualSalary)
        holding == {c \in 1..Len(conditions) : conditions[c].holds}
    IN /\ calcInsights.tips = TipsOf(conditions, Len(conditions))
       /\ calcInsights.recommendedSchemes = IdsOf(conditions, Len(conditions))
       /\ Len(calcInsights.tips) = Cardinality(holding)
       /\ \A country \in {"Japan", "Atlantis"} :
            getPensionInsights(BatchInCountry(country),
                               [age |-> calcProfile.age,
                                annualSalary |-> calcProfile.annualSalary])
              = calcInsights

\* Age 20 and a salary of 200000: three conditions hold, three tips and
\* five identifiers, for a batch with a record to move to another country.
C28_ThreeTips ==
  /\ pc = "summarised"
  /\ calcProfile.age = 20 /\ calcProfile.annualSalary = 200000
  /\ Len(calcResult.value) > 0
  /\ Len(calcInsights.tips) = 3
  /\ calcInsights.recommendedSchemes =
       <<"NPS_Tier_I", "APY", "PM_SYM", "PMKMY", "PM_LVM">>

\* C28 (as stated): tips and recommended scheme identifiers are appended by
\* independently evaluated conditions on age, income and country, the number
\* of tips being the number of conditions that hold: the country is one of
\* the things the conditions look at, so that the summary of a batch in
\* another country is another summary.
C28_TipsByAgeIncomeCountry ==
  (pc = "summarised" /\ Len(calcResult.value) > 0) =>
    LET conditions == TipConditions(calcProfile.age, calcProfile.annualSalary)
        holding == {c \in 1..Len(conditions) : conditions[c].holds}
    IN /\ calcInsights.tips = TipsOf(conditions, Len(conditions))
       /\ calcInsights.recommendedSchemes = IdsOf(conditions, Len(conditions))
       /\ Len(calcInsights.tips) = Cardinality(holding)
       /\ \E country \in {"Japan", "Atlantis"} :
            getPensionInsights(BatchInCountry(country),
                               [age |-> calcProfile.age,
                                annualSalary |-> calcProfile.annualSalary])
              # calcInsights

LowTotalWarning ==
  "Total monthly pension is below RUPEE 5,000. Consider multiple schemes."

\* C29: the two warnings are independent: the low-total warning is present
\* iff totalMonthlyPension < 5000, whatever the replacement-ratio check
\* says; the list of warnings holds none, either one or both, and none
\* twice.
C29_LowTotalWarningIndependent ==
  pc = "summarised" =>
    LET total == calcInsights.totalMonthlyPension
        warnings == calcInsights.warnings
    IN /\ Warned(calcInsights, LowTotalWarning) <=>
            (~IsNaN(total) /\ Twice(total) < 2 * 5000)
       /\ \A k \in 1..Len(warnings) :
            warnings[k] \in {ReplacementRatioWarning, LowTotalWarning}
       /\ \A k, l \in 1..Len(warnings) : warnings[k] = warnings[l] => k = l

\* A total of exactly 5000 a month against a salary of 600000: the
\* replacement-ratio warning alone.
C29_RatioWarningAlone ==
  /\ pc = "summarised"
  /\ calcInsights.totalMonthlyPension = Num(5000)
  /\ calcInsights.warnings = <<ReplacementRatioWarning>>

(***************************************************************************)
(* Properties of the auth gating of the dashboard (specification AuthSpec) *)
(***************************************************************************)
\* C30: the provider's loading flag is true from the start until the
\* auth-state callback has fired, and once false it is never true again;
\* Dashboard's effect navigates to '/' only in a state where loading is
\* false and user is null (the one other navigation, the button of the
\* body, needs the body); and Dashboard never shows the dashboard body while
\* loading is true or user is null, whatever the order of callbacks, renders
\* and effects.
C30_AuthGating ==
  /\ [](~callbackFired => loading)
  /\ [][~loading => ~loading']_vars
  /\ [](pushed.by = "effect" => ~pushed.loading /\ pushed.user = NoUser)
  /\ [](pushed.by = "button" => ~pushed.loading /\ pushed.user # NoUser)
  /\ [](view = "body" => ~loading /\ user # NoUser)

\* The dashboard body for a user who signed in after Dashboard's effect had
\* sent the browser to '/'.
C30_BodyAfterRedirect ==
  /\ pc = "auth"
  /\ callbackFired
  /\ pushed.by = "effect"
  /\ location = "/dashboard"
  /\ view = "body"
  /\ user \in Users

====
